---- MODULE Spec2Model ----
(***************************************************************************)
(* Model of mctx-ai/example-mcp-server.                                    *)
(*                                                                         *)
(* Two entry points are modelled:                                          *)
(*   "worker"    the hand-written Cloudflare-Worker dispatcher (the older  *)
(*               index.js, kept as src/unnamed/part_004): its fetch(),     *)
(*               jsonRpcResponse() and jsonRpcError();                     *)
(*   "framework" src/src/index.ts: the tool, resource and prompt handlers  *)
(*               and their input schemas registered on createServer().     *)
(*               createServer(), createProgress(), conversation() and the  *)
(*               T schema checks live in the @mctx-ai/mcp-server package,  *)
(*               which is not part of the sources; those parts follow      *)
(*               spec.md (sections 4.1-4.4) and are the Fw... definitions. *)
(*                                                                         *)
(* Conventions.  A JavaScript value is a record [t, n, s]: t is its type   *)
(* tag, n its number (when t = "num"), s its text (when t = "str").  A     *)
(* text is a sequence of atoms; user-supplied strings are sequences of     *)
(* one-character atoms, so Len is the string's length; literals of the     *)
(* program are single atoms.  A request is handled by one flow of control, *)
(* one request at a time; the per-request variables are reset by           *)
(* NewRequest.                                                             *)
(***************************************************************************)
EXTENDS Integers, Sequences, FiniteSets, TLC

----------------------------------------------------------------------------
(* Bounds of the model *)

\* user strings: every string over Alphabet up to this length
MaxStr == 2
\* numeric operands range over -MaxNum..MaxNum
MaxNum == 2

----------------------------------------------------------------------------
(* JavaScript values *)

Undef == [t |-> "undef", n |-> 0, s |-> <<>>]
Null == [t |-> "null", n |-> 0, s |-> <<>>]
Num(x) == [t |-> "num", n |-> x, s |-> <<>>]
Str(x) == [t |-> "str", n |-> 0, s |-> x]

\* JavaScript truthiness, as used by `||`, `!ask`, `context ? .. : ..`
Truthy(v) ==
  CASE v.t = "undef" -> FALSE
    [] v.t = "null" -> FALSE
    [] v.t = "num" -> v.n # 0
    [] v.t = "str" -> v.s # <<>>
    [] OTHER -> TRUE

\* `${v}` inside a template literal
Interp(v) ==
  CASE v.t = "undef" -> <<"undefined">>
    [] v.t = "null" -> <<"null">>
    [] v.t = "num" -> <<ToString(v.n)>>
    [] OTHER -> v.s

Alphabet == {"a", " "}

Pad(k) == [i \in 1..k |-> "a"]

SmallStrings == UNION {[1..k -> Alphabet] : k \in 0..MaxStr}

----------------------------------------------------------------------------
(* Input schemas of src/src/index.ts: the constraint constants *)

GreetNameMinLength == 1
GreetNameMaxLength == 100
AnalyzeTopicMinLength == 3
AnalyzeTopicMaxLength == 200
QuestionMinLength == 5
DebugErrorMinLength == 1
DebugContextMaxLength == 5000
AnalyzeSteps == 3

\* lengths at and around every length constraint of the schemas
EdgeLengths ==
  UNION {{c - 1, c, c + 1} :
         c \in {GreetNameMinLength, GreetNameMaxLength, AnalyzeTopicMinLength,
                AnalyzeTopicMaxLength, QuestionMinLength}}

UserStrings == SmallStrings \cup {Pad(k) : k \in EdgeLengths}

----------------------------------------------------------------------------
(* Requests on the wire *)

ArgKeys ==
  {"name", "operation", "a", "b", "topic", "question",
   "code", "language", "error", "context"}

NoArgs == [k \in ArgKeys |-> Undef]

StrValues == {Str(x) : x \in UserStrings}

\* values offered for a string parameter: strings, absent, wrong type
StrArgValues == StrValues \cup {Undef, Num(1)}

\* values offered for a number parameter: numbers, absent, wrong type
NumArgValues == {Num(i) : i \in -MaxNum..MaxNum} \cup {Undef, Str(<<"a">>)}

OperationValues ==
  {Str(<<"add">>), Str(<<"subtract">>), Str(<<"multiply">>),
   Str(<<"divide">>), Str(<<"pow">>), Undef}

GreetArgs == {[NoArgs EXCEPT !["name"] = v] : v \in StrArgValues}

CalculateArgs ==
  {[NoArgs EXCEPT !["operation"] = o, !["a"] = x, !["b"] = y] :
     o \in OperationValues, x \in NumArgValues, y \in NumArgValues}

AnalyzeArgs == {[NoArgs EXCEPT !["topic"] = v] : v \in StrArgValues}

SmartAnswerArgs == {[NoArgs EXCEPT !["question"] = v] : v \in StrArgValues}

OptionalStrValues == {Undef, Str(<<>>), Str(<<"a">>), Num(1)}

CodeReviewArgs ==
  {[NoArgs EXCEPT !["code"] = c, !["language"] = l] :
     c \in OptionalStrValues, l \in OptionalStrValues}

ContextValues ==
  OptionalStrValues
    \cup {Str(Pad(DebugContextMaxLength)), Str(Pad(DebugContextMaxLength + 1))}

DebugArgs ==
  {[NoArgs EXCEPT !["error"] = e, !["context"] = c] :
     e \in OptionalStrValues, c \in ContextValues}

\* a URI is the text of its characters; "/" is an atom of its own
Uri(scheme, rest) == Str(<<scheme, "/", "/">> \o rest)

UriValues ==
  {Undef,
   Uri("docs:", <<"readme">>), Uri("docs:", <<"other">>),
   Uri("user:", <<>>), Uri("user:", <<"1">>), Uri("user:", <<"1", "2", "3">>),
   Uri("user:", <<"4", "5", "6">>), Uri("user:", <<"1", "/", "2">>),
   Uri("team:", <<"1">>)}

\* params: absent (t = "undef"), null, or an object with the members
\* name, uri and arguments (hasArgs); absent members are Undef
Params(t, name, uri, hasArgs, args) ==
  [t |-> t, name |-> name, uri |-> uri, hasArgs |-> hasArgs, args |-> args]

NoParams == Params("undef", Undef, Undef, FALSE, NoArgs)
NullParams == Params("null", Undef, Undef, FALSE, NoArgs)
NamedParams(name, args) == Params("obj", Str(<<name>>), Undef, TRUE, args)

ToolCallParams ==
  {NoParams, NullParams, Params("obj", Undef, Undef, TRUE, NoArgs),
   Params("obj", Num(1), Undef, TRUE, NoArgs)}
    \cup {Params("obj", Str(<<nm>>), Undef, FALSE, NoArgs) :
            nm \in {"hello", "greet", "nope"}}
    \cup {NamedParams("hello", NoArgs), NamedParams("nope", NoArgs)}
    \cup {NamedParams("greet", x) : x \in GreetArgs}
    \cup {NamedParams("calculate", x) : x \in CalculateArgs}
    \cup {NamedParams("analyze", x) : x \in AnalyzeArgs}
    \cup {NamedParams("smart-answer", x) : x \in SmartAnswerArgs}

PromptGetParams ==
  {NoParams, Params("obj", Undef, Undef, TRUE, NoArgs),
   NamedParams("nope", NoArgs)}
    \cup {NamedParams("code-review", x) : x \in CodeReviewArgs}
    \cup {NamedParams("debug", x) : x \in DebugArgs}

ResourceReadParams ==
  {NoParams} \cup {Params("obj", Undef, u, FALSE, NoArgs) : u \in UriValues}

OtherParams == {NoParams, NamedParams("hello", NoArgs)}

\* the `method` member: the supported names, an unsupported name, a
\* non-string, or absent
MethodValues ==
  {Str(<<m>>) :
     m \in {"tools/list", "tools/call", "resources/list",
            "resources/templates/list", "resources/read", "prompts/list",
            "prompts/get", "notifications/cancelled", "foo/bar"}}
    \cup {Num(1), Undef}

ParamsFor(m) ==
  CASE m = Str(<<"tools/call">>) -> ToolCallParams
    [] m = Str(<<"prompts/get">>) -> PromptGetParams
    [] m = Str(<<"resources/read">>) -> ResourceReadParams
    [] OTHER -> OtherParams

\* a JSON number as written on the wire: its literal text
NumLit(text) == [t |-> "numlit", n |-> 0, s |-> text]

\* the `id` member as written by the client: absent, null, a number (2, or
\* 1 written 1.0), a string
WireIds ==
  {Undef, Null, NumLit(<<"2">>), NumLit(<<"1", ".", "0">>), Str(<<"a">>)}

\* a request body: text that is not JSON, the JSON value null, another
\* JSON value that is no object (number, string, array, boolean), or an
\* object with the members method, params, id
Body(kind, method, params, id) ==
  [kind |-> kind, method |-> method, params |-> params, id |-> id]

Bodies ==
  {Body(k, Undef, NoParams, Undef) : k \in {"invalid", "null", "scalar"}}
    \cup UNION {{Body("object", m, p, i) : p \in ParamsFor(m), i \in WireIds} :
                  m \in MethodValues}

HttpMethods == {"POST", "GET", "OPTIONS"}

Entries == {"worker", "framework"}

\* process.env.GREETING / env.GREETING: unset, empty, or set
GreetingValues == {Undef, Str(<<>>), Str(<<"Howdy">>)}

----------------------------------------------------------------------------
(* Responses *)

\* lines 97-101 and 121-125: the headers of a JSON-RPC response
JsonHeaders ==
  ("Content-Type" :> "application/json")
    @@ ("MCP-Protocol-Version" :> "2025-11-25")
    @@ ("Access-Control-Allow-Origin" :> "*")

\* lines 16-20: the headers of the answer to a CORS preflight
PreflightHeaders ==
  ("Access-Control-Allow-Origin" :> "*")
    @@ ("Access-Control-Allow-Methods" :> "POST, OPTIONS")
    @@ ("Access-Control-Allow-Headers" :> "Content-Type")

\* a tool / resource / prompt / list result
Result(t, names, text, isError, mimeType, messages) ==
  [t |-> t, names |-> names, text |-> text, isError |-> isError,
   mimeType |-> mimeType, messages |-> messages]

NoResult == Result("undef", <<>>, <<>>, FALSE, "", <<>>)
EmptyResult == Result("empty", <<>>, <<>>, FALSE, "", <<>>)
ListResult(kind, names) == Result(kind, names, <<>>, FALSE, "", <<>>)
ContentResult(text, isError) == Result("content", <<>>, text, isError, "", <<>>)

NoError == [code |-> 0, message |-> <<>>]

DigitValue(d) ==
  CASE d = "0" -> 0 [] d = "1" -> 1 [] d = "2" -> 2 [] d = "3" -> 3
    [] d = "4" -> 4 [] d = "5" -> 5 [] d = "6" -> 6 [] d = "7" -> 7
    [] d = "8" -> 8 [] OTHER -> 9

\* the number a JSON literal denotes: its integer digits (the literals used
\* have no fraction other than zeros, and no exponent)
RECURSIVE DigitsValue(_)
DigitsValue(ds) ==
  IF ds = <<>> THEN 0
  ELSE 10 * DigitsValue(SubSeq(ds, 1, Len(ds) - 1)) + DigitValue(ds[Len(ds)])

ParseNumber(text) ==
  LET dots == {k \in 1..Len(text) : text[k] = "."}
      stop == IF dots = {} THEN Len(text)
              ELSE (CHOOSE k \in dots : \A j \in dots : k <= j) - 1
  IN DigitsValue(SubSeq(text, 1, stop))

\* JSON.parse of a scalar member: a number literal becomes a number
JsonParseScalar(w) == IF w.t = "numlit" THEN Num(ParseNumber(w.s)) ELSE w

\* JSON.stringify of a scalar member: a number is written in its shortest
\* decimal form
JsonScalarText(v) == IF v.t = "num" THEN NumLit(<<ToString(v.n)>>) ELSE v

\* JSON.stringify of the envelope {jsonrpc, result?, error?, id}: a member
\* whose value is undefined is left out of the text
JsonStringify(result, hasError, error, id) ==
  [members |-> {"jsonrpc"}
                 \cup (IF result.t # "undef" THEN {"result"} ELSE {})
                 \cup (IF hasError THEN {"error"} ELSE {})
                 \cup (IF id.t # "undef" THEN {"id"} ELSE {}),
   result |-> result,
   error |-> IF hasError THEN error ELSE NoError,
   id |-> JsonScalarText(id)]

NoBody == [members |-> {}, result |-> NoResult, error |-> NoError, id |-> Undef]

Response(status, headers, hasBody, body) ==
  [status |-> status, headers |-> headers, hasBody |-> hasBody, body |-> body]

jsonRpcResponse(result, id) ==
  Response(200, JsonHeaders, TRUE, JsonStringify(result, FALSE, NoError, id))

\* mutant: the error envelope built without the request's id
jsonRpcError_NullId(code, message, id, httpStatus) ==
  Response(httpStatus, JsonHeaders, TRUE,
           JsonStringify(NoResult, TRUE, [code |-> code, message |-> message], Null))

\* mutant: the error response built without the cross-origin header
jsonRpcError_NoCors(code, message, id, httpStatus) ==
  Response(httpStatus,
           ("Content-Type" :> "application/json")
             @@ ("MCP-Protocol-Version" :> "2025-11-25"),
           TRUE,
           JsonStringify(NoResult, TRUE, [code |-> code, message |-> message], id))

jsonRpcError(code, message, id, httpStatus) ==
  Response(httpStatus, JsonHeaders, TRUE,
           JsonStringify(NoResult, TRUE, [code |-> code, message |-> message], id))

PreflightResponse == Response(204, PreflightHeaders, FALSE, NoBody)

----------------------------------------------------------------------------
(* State *)

VARIABLES
  stage,      \* where the request in hand is: Idle, Received, Parsed, Routed,
              \* Executing, Responded, Crashed (fetch threw)
  req,        \* the request in hand: [entry, httpMethod, body]
  env,        \* the GREETING environment variable
  askSink,    \* whether the transport offers sampling (`ask` is non-null)
  parsed,     \* the value request.json() resolved to
  target,     \* the capability the request was routed to
  path,       \* the stages the request has entered, in order
  calls,      \* handler bodies entered for this request, in order
  responses,  \* responses returned for this request, in order
  gen,        \* the progress generator: [pc, n] (position, step counter)
  pending,    \* the progress notification being delivered, if any
  delivered,  \* progress notifications delivered to the notify sink
  asks,       \* [calls, replies, waiting, clarification] of the ask sink
  final,      \* the handler's outcome once produced
  eng,        \* one execute(handler, args, notifySink, askSink) of the engine
  reg,        \* a capability registry under construction and its last call
  rep,        \* a request to be repeated and the result it had first
  ver         \* a run of admin/version.sh and the repository it runs in

\* the state of the server serving requests
serverVars ==
  <<stage, req, env, askSink, parsed, target, path, calls, responses, gen,
    pending, delivered, asks, final>>

\* the state of the library core taken alone, of the repeated request, and
\* of a run of admin/version.sh
coreVars == <<eng, reg, rep, ver>>

vars == <<serverVars, coreVars>>

NoReq == [entry |-> "worker", httpMethod |-> "POST",
          body |-> Body("invalid", Undef, NoParams, Undef)]
NoParsed == Body("none", Undef, NoParams, Undef)
NoGen == [pc |-> 0, n |-> 0]
NoPending == [some |-> FALSE, current |-> 0, total |-> 0]
NoAsks == [calls |-> 0, replies |-> 0, waiting |-> FALSE, clarification |-> <<>>]
\* a handler outcome: not yet (some = FALSE), a thrown failure with its
\* message, a returned text, or returned conversation fragments
NoOutcome == [some |-> FALSE, threw |-> FALSE, text |-> <<>>, messages |-> <<>>]

\* the server after startup, before its first request
ServerInit ==
  /\ stage = "Idle"
  /\ req = NoReq
  /\ env \in GreetingValues
  /\ askSink = FALSE
  /\ parsed = NoParsed
  /\ target = ""
  /\ path = <<>>
  /\ calls = <<>>
  /\ responses = <<>>
  /\ gen = NoGen
  /\ pending = NoPending
  /\ delivered = <<>>
  /\ asks = NoAsks
  /\ final = NoOutcome

\* execute() not yet called: the handler (its kind, the operations its
\* body performs, in order, and the total it gives createProgress), whether
\* the ask sink is available, the position in the body, the progress
\* counter, the notifications in flight, those delivered, the calls of ask,
\* the final value and the coerced result
NoEngine ==
  [handler |-> [kind |-> "Plain", script |-> <<>>, total |-> 0], sink |-> FALSE,
   phase |-> "idle", pc |-> 0, n |-> 0, inflight |-> <<>>,
   delivered |-> <<>>, asked |-> 0, waiting |-> FALSE, outcome |-> NoOutcome,
   result |-> NoResult]

\* no registration call made yet
NoRegistryCall ==
  [op |-> "", kind |-> "", key |-> <<>>, failed |-> FALSE, found |-> 0,
   param |-> <<>>, names |-> <<>>]

\* no registry of its own: the server runs on the registrations of
\* src/src/index.ts (RegisteredTools, RegisteredPrompts, RegisteredResources)
NoRegistry ==
  [tools |-> <<>>, prompts |-> <<>>, resources |-> <<>>, frozen |-> FALSE,
   last |-> NoRegistryCall]

\* no request singled out for repetition: the entry point and body of the
\* request, whether it has been answered once, what GREETING, the ask sink
\* and the client's clarification were then, the result it got, and whether
\* another request has been served since
NoRepeat ==
  [entry |-> "worker", body |-> Body("invalid", Undef, NoParams, Undef),
   some |-> FALSE, env |-> Undef, askSink |-> FALSE, clarification |-> <<>>,
   result |-> NoResult, between |-> FALSE]

\* the repository admin/version.sh runs in: the branch checked out, whether
\* tracked files are modified (git diff), whether changes are staged
\* (git diff --cached), whether untracked files lie around, whether the
\* local release branch exists, the version in main's package.json, the
\* versions committed on main (commit k has sha k), the shas picked onto
\* release, whether a cherry-pick stopped on a conflict, and how many
\* commits of main and of release origin has
NoRepo ==
  [branch |-> "main", unstaged |-> FALSE, staged |-> FALSE, untracked |-> FALSE,
   release |-> TRUE, package |-> <<>>, main |-> <<>>, picked |-> <<>>,
   picking |-> FALSE, originMain |-> 0, originRelease |-> 0]

\* admin/version.sh not run: its position, its arguments, bump_type,
\* push_branches, next_version, commit_sha, its exit status (-1 while it
\* runs), the last line it wrote, the steps it has performed, the
\* repository, and the repository as it was when the script started
NoVersion ==
  [pc |-> "none", args |-> <<>>, bump_type |-> <<>>, push_branches |-> FALSE,
   next_version |-> <<>>, commit_sha |-> 0, status |-> -1, out |-> <<>>,
   log |-> <<>>, repo |-> NoRepo, before |-> NoRepo]

Init ==
  /\ ServerInit
  /\ eng = NoEngine
  /\ reg = NoRegistry
  /\ rep = NoRepeat
  /\ ver = NoVersion

\* a request arrives
NewRequest ==
  /\ UNCHANGED coreVars
  /\ stage = "Idle"
  /\ \E e \in Entries, h \in HttpMethods, b \in Bodies, a \in BOOLEAN :
       /\ req' = [entry |-> e, httpMethod |-> h, body |-> b]
       /\ askSink' = a
  /\ stage' = "Received"
  /\ path' = <<"Received">>
  /\ UNCHANGED <<env, parsed, target, calls, responses, gen, pending,
                 delivered, asks, final>>

\* the request's scope ends: its envelope, notifications and handler state
\* are discarded
EndRequest ==
  /\ UNCHANGED coreVars
  /\ stage \in {"Responded", "Crashed"}
  /\ stage' = "Idle"
  /\ req' = NoReq
  /\ askSink' = FALSE
  /\ path' = <<>>
  /\ parsed' = NoParsed
  /\ target' = ""
  /\ calls' = <<>>
  /\ responses' = <<>>
  /\ gen' = NoGen
  /\ pending' = NoPending
  /\ delivered' = <<>>
  /\ asks' = NoAsks
  /\ final' = NoOutcome
  /\ UNCHANGED env

\* the hosting platform changes GREETING between requests
SetGreeting ==
  /\ UNCHANGED coreVars
  /\ stage = "Idle"
  /\ \E g \in GreetingValues : g # env /\ env' = g
  /\ UNCHANGED <<stage, req, askSink, parsed, target, path, calls, responses,
                 gen, pending, delivered, asks, final>>

\* fetch returns `r`: the request is answered
Respond(r, stages) ==
  /\ responses' = Append(responses, r)
  /\ stage' = "Responded"
  /\ path' = path \o stages \o <<"Responded">>

----------------------------------------------------------------------------
(* The worker: fetch() of src/unnamed/part_004 *)

\* mutant: a body that is not JSON is let through instead of rejected
RequestJson_NoReject(b) ==
  [ok |-> TRUE, value |-> [b EXCEPT !.id = JsonParseScalar(b.id)]]

\* request.json(): the body text parsed; rejects when it is not JSON
RequestJson(b) ==
  [ok |-> b.kind # "invalid",
   value |-> IF b.kind = "invalid" THEN NoParsed
             ELSE [b EXCEPT !.id = JsonParseScalar(b.id)]]

\* `const { method, params, id } = body` throws a TypeError on null
DestructureThrows(v) == v.kind = "null"

\* the members read off a parsed body; a non-object has none of them
Member(v, m) ==
  IF v.kind = "object"
    THEN CASE m = "method" -> v.method [] m = "id" -> v.id [] OTHER -> Undef
    ELSE Undef

ParamsOf(v) == IF v.kind = "object" THEN v.params ELSE NoParams

\* params?.name
ParamsName(p) == IF p.t = "obj" THEN p.name ELSE Undef

\* mutant: the tool is listed twice
WorkerTools_Twice == <<"hello", "hello">>

\* lines 43-52: the tools array of the tools/list result
WorkerTools == <<"hello">>

\* mutant: the body is read and parsed before the preflight is answered
fetch_Preflight_ParsesFirst ==
  /\ UNCHANGED coreVars
  /\ stage = "Received" /\ req.entry = "worker"
  /\ req.httpMethod = "OPTIONS"
  /\ parsed' = RequestJson(req.body).value
  /\ Respond(PreflightResponse, <<"Parsed">>)
  /\ UNCHANGED <<req, env, askSink, target, calls, gen, pending, delivered,
                 asks, final>>

\* lines 13-22: CORS preflight
fetch_Preflight ==
  /\ UNCHANGED coreVars
  /\ stage = "Received" /\ req.entry = "worker"
  /\ req.httpMethod = "OPTIONS"
  /\ Respond(PreflightResponse, <<>>)
  /\ UNCHANGED <<req, env, askSink, parsed, target, calls, gen, pending,
                 delivered, asks, final>>

\* lines 25-27: only POST
fetch_NotPost ==
  /\ UNCHANGED coreVars
  /\ stage = "Received" /\ req.entry = "worker"
  /\ req.httpMethod # "OPTIONS" /\ req.httpMethod # "POST"
  /\ Respond(jsonRpcError(-32600, <<"Invalid Request - Only POST allowed">>,
                          Null, 405), <<>>)
  /\ UNCHANGED <<req, env, askSink, parsed, target, calls, gen, pending,
                 delivered, asks, final>>

\* lines 30-35: request.json() rejected
fetch_ParseError ==
  /\ UNCHANGED coreVars
  /\ stage = "Received" /\ req.entry = "worker"
  /\ req.httpMethod = "POST"
  /\ ~RequestJson(req.body).ok
  /\ Respond(jsonRpcError(-32700, <<"Parse error - Invalid JSON">>, Null, 400),
             <<>>)
  /\ UNCHANGED <<req, env, askSink, parsed, target, calls, gen, pending,
                 delivered, asks, final>>

\* lines 30-32: request.json() resolved
fetch_Parse ==
  /\ UNCHANGED coreVars
  /\ stage = "Received" /\ req.entry = "worker"
  /\ req.httpMethod = "POST"
  /\ RequestJson(req.body).ok
  /\ parsed' = RequestJson(req.body).value
  /\ stage' = "Parsed"
  /\ path' = Append(path, "Parsed")
  /\ UNCHANGED <<req, env, askSink, target, calls, responses, gen, pending,
                 delivered, asks, final>>

\* line 37 on a null body: the TypeError leaves fetch, no Response is built
fetch_Throw ==
  /\ UNCHANGED coreVars
  /\ stage = "Parsed" /\ req.entry = "worker"
  /\ DestructureThrows(parsed)
  /\ stage' = "Crashed"
  /\ path' = Append(path, "Crashed")
  /\ UNCHANGED <<req, env, askSink, parsed, target, calls, responses, gen,
                 pending, delivered, asks, final>>

\* the hello tool, lines 63-73
hello(greeting) ==
  ContentResult((IF Truthy(greeting) THEN Interp(greeting) ELSE <<"Hello">>)
                  \o <<", World!">>, FALSE)

\* mutant: the message does not name the tool
UnknownTool_NoName(toolName, id) ==
  jsonRpcError(-32601, <<"Unknown tool">>, id, 400)

\* mutant: a missing tool is reported as Invalid Request
UnknownTool_InvalidRequest(toolName, id) ==
  jsonRpcError(-32600, <<"Unknown tool: ">> \o Interp(toolName), id, 400)

\* line 60
UnknownTool(toolName, id) ==
  jsonRpcError(-32601, <<"Unknown tool: ">> \o Interp(toolName), id, 400)

\* mutant: an unsupported method is reported with a server-error status
MethodNotFound_ServerError(method, id) ==
  jsonRpcError(-32601, <<"Method not found: ">> \o Interp(method), id, 500)

\* line 80
MethodNotFound(method, id) ==
  jsonRpcError(-32601, <<"Method not found: ">> \o Interp(method), id, 400)

\* mutant: the switch without its notifications/cancelled case
fetch_Route_NoCancelled(method, params, id, greeting) ==
  CASE method = Str(<<"tools/list">>) ->
         [response |-> jsonRpcResponse(ListResult("tools", WorkerTools), id),
          calls |-> <<>>, stages |-> <<"Routed">>]
    [] method = Str(<<"tools/call">>) ->
         IF ParamsName(params) # Str(<<"hello">>)
           THEN [response |-> UnknownTool(ParamsName(params), id),
                 calls |-> <<>>, stages |-> <<"Routed">>]
           ELSE [response |-> jsonRpcResponse(hello(greeting), id),
                 calls |-> <<"hello">>, stages |-> <<"Routed", "Executed">>]
    [] OTHER ->
         [response |-> MethodNotFound(method, id),
          calls |-> <<>>, stages |-> <<>>]

\* lines 40-81: the switch on `method`; what it returns and the handlers
\* it enters
fetch_Route(method, params, id, greeting) ==
  CASE method = Str(<<"tools/list">>) ->
         [response |-> jsonRpcResponse(ListResult("tools", WorkerTools), id),
          calls |-> <<>>, stages |-> <<"Routed">>]
    [] method = Str(<<"tools/call">>) ->
         IF ParamsName(params) # Str(<<"hello">>)
           THEN [response |-> UnknownTool(ParamsName(params), id),
                 calls |-> <<>>, stages |-> <<"Routed">>]
           ELSE [response |-> jsonRpcResponse(hello(greeting), id),
                 calls |-> <<"hello">>, stages |-> <<"Routed", "Executed">>]
    [] method = Str(<<"notifications/cancelled">>) ->
         [response |-> jsonRpcResponse(EmptyResult, id),
          calls |-> <<>>, stages |-> <<"Routed">>]
    [] OTHER ->
         [response |-> MethodNotFound(method, id),
          calls |-> <<>>, stages |-> <<>>]

\* lines 37-81 on any other body
fetch_Switch ==
  /\ UNCHANGED coreVars
  /\ stage = "Parsed" /\ req.entry = "worker"
  /\ ~DestructureThrows(parsed)
  /\ LET r == fetch_Route(Member(parsed, "method"), ParamsOf(parsed),
                          Member(parsed, "id"), env)
     IN /\ Respond(r.response, r.stages)
        /\ calls' = calls \o r.calls
  /\ UNCHANGED <<req, env, askSink, parsed, target, gen, pending, delivered,
                 asks, final>>

----------------------------------------------------------------------------
(* src/src/index.ts: input schemas *)

\* T.string({required, minLength, maxLength, enum}); -1: not declared,
\* an empty enum: not declared
TString(required, minLength, maxLength, enum) ==
  [type |-> "str", required |-> required, minLength |-> minLength,
   maxLength |-> maxLength, enum |-> enum]

\* T.number({required})
TNumber(required) ==
  [type |-> "num", required |-> required, minLength |-> -1,
   maxLength |-> -1, enum |-> {}]

Param(key, d) == [key |-> key, d |-> d]

\* mutant: minLength left out of the schema
greetInput_NoMinLength ==
  <<Param("name", TString(TRUE, -1, GreetNameMaxLength, {}))>>

greetInput ==
  <<Param("name", TString(TRUE, GreetNameMinLength, GreetNameMaxLength, {}))>>

calculateInput ==
  <<Param("operation",
          TString(TRUE, -1, -1,
                  {<<"add">>, <<"subtract">>, <<"multiply">>, <<"divide">>})),
    Param("a", TNumber(TRUE)),
    Param("b", TNumber(TRUE))>>

analyzeInput ==
  <<Param("topic",
          TString(TRUE, AnalyzeTopicMinLength, AnalyzeTopicMaxLength, {}))>>

smartAnswerInput ==
  <<Param("question", TString(TRUE, QuestionMinLength, -1, {}))>>

codeReviewInput ==
  <<Param("code", TString(TRUE, -1, -1, {})),
    Param("language", TString(FALSE, -1, -1, {}))>>

debugInput ==
  <<Param("error", TString(TRUE, DebugErrorMinLength, -1, {})),
    Param("context", TString(FALSE, -1, DebugContextMaxLength, {}))>>

----------------------------------------------------------------------------
(* src/src/index.ts: handlers *)

Outcome(some, threw, text, messages) ==
  [some |-> some, threw |-> threw, text |-> text, messages |-> messages]

Returned(text) == Outcome(TRUE, FALSE, text, <<>>)
Threw(message) == Outcome(TRUE, TRUE, message, <<>>)

\* mutant: the handler keeps state of its own across calls and greets a
\* caller it has answered before differently
greet_Remembering(args, greeting) ==
  Returned((IF rep.some THEN <<"Welcome back">>
            ELSE IF Truthy(greeting) THEN Interp(greeting) ELSE <<"Hello">>)
             \o <<", ">> \o Interp(args["name"]) \o <<"!">>)

\* lines 51-58
greet(args, greeting) ==
  Returned((IF Truthy(greeting) THEN Interp(greeting) ELSE <<"Hello">>)
             \o <<", ">> \o Interp(args["name"]) \o <<"!">>)

RECURSIVE Gcd(_, _)
Gcd(x, y) == IF y = 0 THEN x ELSE Gcd(y, x % y)

Abs(x) == IF x < 0 THEN -x ELSE x

\* the text JSON.stringify gives the number x / y (y # 0): the integer
\* when the division is exact, otherwise the fraction in lowest terms
\* standing for its decimal expansion
QuotientText(x, y) ==
  LET g == Gcd(Abs(x), Abs(y))
      sx == (IF y < 0 THEN -x ELSE x) \div g
      sy == Abs(y) \div g
  IN IF sy = 1 THEN ToString(sx) ELSE ToString(sx) \o "/" \o ToString(sy)

\* mutant: subtract and divide take their operands in the wrong order
OpsText_Swapped(operation, a, b) ==
  IF a.t # "num" \/ b.t # "num" THEN
    IF operation \in {<<"add">>, <<"subtract">>, <<"multiply">>, <<"divide">>}
      THEN <<"null">> ELSE <<>>
  ELSE
    CASE operation = <<"add">> -> <<ToString(a.n + b.n)>>
      [] operation = <<"subtract">> -> <<ToString(b.n - a.n)>>
      [] operation = <<"multiply">> -> <<ToString(a.n * b.n)>>
      [] operation = <<"divide">> ->
           IF a.n = 0 THEN <<"null">> ELSE <<QuotientText(b.n, a.n)>>
      [] OTHER -> <<>>

\* ops[operation] as JSON text; <<>> when ops has no such key (undefined:
\* the member is left out).  The schema admits numbers only; any other
\* operand serialises as null here.
OpsText(operation, a, b) ==
  IF a.t # "num" \/ b.t # "num" THEN
    IF operation \in {<<"add">>, <<"subtract">>, <<"multiply">>, <<"divide">>}
      THEN <<"null">> ELSE <<>>
  ELSE
    CASE operation = <<"add">> -> <<ToString(a.n + b.n)>>
      [] operation = <<"subtract">> -> <<ToString(a.n - b.n)>>
      [] operation = <<"multiply">> -> <<ToString(a.n * b.n)>>
      [] operation = <<"divide">> ->
           IF b.n = 0 THEN <<"null">> ELSE <<QuotientText(a.n, b.n)>>
      [] OTHER -> <<>>

\* JSON.stringify of a string or number value
JsonValueText(v) ==
  CASE v.t = "str" -> <<"\"">> \o v.s \o <<"\"">>
    [] v.t = "num" -> <<ToString(v.n)>>
    [] OTHER -> <<"null">>

\* mutant: the division-by-zero guard left out
calculate_NoGuard(args) ==
  Returned(<<"{", "\"operation\":">> \o JsonValueText(args["operation"])
             \o <<",", "\"a\":">> \o JsonValueText(args["a"])
             \o <<",", "\"b\":">> \o JsonValueText(args["b"])
             \o <<",", "\"result\":">>
             \o OpsText(args["operation"].s, args["a"], args["b"]) \o <<"}">>)

\* lines 71-94; the object returned is given as its JSON text
calculate(args) ==
  LET operation == args["operation"]
      a == args["a"]
      b == args["b"]
      result == OpsText(operation.s, a, b)
  IN IF operation = Str(<<"divide">>) /\ b = Num(0)
       THEN Threw(<<"Division by zero">>)
       ELSE Returned(<<"{", "\"operation\":">> \o JsonValueText(operation)
                       \o <<",", "\"a\":">> \o JsonValueText(a)
                       \o <<",", "\"b\":">> \o JsonValueText(b)
                       \o (IF result = <<>> THEN <<>>
                           ELSE <<",", "\"result\":">> \o result)
                       \o <<"}">>)

\* mutant: the step function counts down from total
createProgressStep_CountDown(n, total) == [current |-> total - n, total |-> total]

\* createProgress(total): the step function's next notification, n being
\* the calls made so far
createProgressStep(n, total) == [current |-> n + 1, total |-> total]

\* the yield statements of analyze, lines 118-124
AnalyzeYields == 3

\* mutant: the last `yield step()` left out
analyze_TwoYields(args, g) ==
  IF g.pc < AnalyzeYields - 1
    THEN [done |-> FALSE,
          gen |-> [pc |-> g.pc + 1, n |-> g.n + 1],
          value |-> createProgressStep(g.n, AnalyzeSteps),
          outcome |-> Outcome(FALSE, FALSE, <<>>, <<>>)]
    ELSE [done |-> TRUE,
          gen |-> [pc |-> g.pc + 1, n |-> g.n],
          value |-> [current |-> 0, total |-> 0],
          outcome |-> Returned(<<"Analysis of \"">> \o Interp(args["topic"])
                                 \o <<"\" complete.">>)]

\* lines 111-131: analyze resumed at position g.pc with g.n steps taken:
\* the next `yield step()`, or the return
analyze(args, g) ==
  IF g.pc < AnalyzeYields
    THEN [done |-> FALSE,
          gen |-> [pc |-> g.pc + 1, n |-> g.n + 1],
          value |-> createProgressStep(g.n, AnalyzeSteps),
          outcome |-> Outcome(FALSE, FALSE, <<>>, <<>>)]
    ELSE [done |-> TRUE,
          gen |-> [pc |-> g.pc + 1, n |-> g.n],
          value |-> [current |-> 0, total |-> 0],
          outcome |->
            Returned(<<"Analysis of \"">> \o Interp(args["topic"])
                       \o <<"\" complete. Found 42 insights across 7 categories.">>)]

\* mutant: ask is called without the `if (!ask)` check
smartAnswer_NoCheck(args, ask) ==
  [askCalled |-> TRUE, outcome |-> Outcome(FALSE, FALSE, <<>>, <<>>)]

\* lines 148-165 up to the first suspension: without `ask` the fallback
\* answer, otherwise the call of ask
smartAnswer(args, ask) ==
  IF ~ask
    THEN [askCalled |-> FALSE,
          outcome |-> Returned(<<"Answer to: ">> \o Interp(args["question"]))]
    ELSE [askCalled |-> TRUE, outcome |-> Outcome(FALSE, FALSE, <<>>, <<>>)]

\* lines 159-164: resumed with the clarification
smartAnswerResumed(args, clarification) ==
  Returned(<<"Question: ">> \o Interp(args["question"])
             \o <<"\nContext: ">> \o clarification
             \o <<"\nAnswer: With the additional context, here is a comprehensive answer.">>)

\* lines 184-185
readme ==
  Returned(<<"Welcome to the example MCP server built with @mctx-ai/mcp-server. This server demonstrates tools, resources, prompts, progress tracking, and sampling.">>)

\* mutant: the profile of a fixed user, whatever the URI says
userProfile_FixedId(userId) ==
  Returned(<<"{", "\"id\":", "\"", "1", "\"", ",", "\"name\":", "\"", "User ", "1",
             "\"", ",", "\"joined\":\"2024-01-01\"", ",", "\"plan\":\"pro\"", "}">>)

\* lines 191-200; the JSON text of the profile
userProfile(userId) ==
  Returned(<<"{", "\"id\":", "\"">> \o userId \o <<"\"", ",", "\"name\":", "\"", "User ">>
             \o userId \o <<"\"", ",", "\"joined\":\"2024-01-01\"", ",",
                            "\"plan\":\"pro\"", "}">>)

\* the Markdown code fence (three backquotes)
Fence == "<fence>"

\* user.say(text) / ai.say(text): a message fragment
Say(role, text) == [role |-> role, text |-> text]

\* mutant: the prompt is returned as a dialogue with an assistant turn
codeReview_TwoTurns(args) ==
  Outcome(TRUE, FALSE, <<>>,
          <<Say("user", <<"Please review this code:\n">> \o Interp(args["code"])),
            Say("ai", <<"I will review the code.">>)>>)

\* lines 212-216: a single string
codeReview(args) ==
  LET language == args["language"]
      code == args["code"]
  IN Returned(<<"Please review this ">>
                \o (IF Truthy(language) THEN Interp(language) ELSE <<"code">>)
                \o <<" for bugs, security issues, and improvements:\n\n", Fence>>
                \o (IF Truthy(language) THEN Interp(language) ELSE <<>>)
                \o <<"\n">> \o Interp(code) \o <<"\n", Fence>>)

\* mutant: the context fragment is added after the assistant's turn
debug_ContextLast(args) ==
  LET error == Say("user", <<"I'm seeing this error: ">> \o Interp(args["error"]))
      context == Say("user", <<"Context:\n">> \o Interp(args["context"]))
      guidance ==
        Say("ai", <<"I will analyze the error and provide step-by-step debugging guidance.">>)
  IN Outcome(TRUE, FALSE, <<>>,
             <<error, guidance>>
               \o (IF Truthy(args["context"]) THEN <<context>> ELSE <<>>))

\* lines 225-235: the fragments the conversation callback returns
debug(args) ==
  LET error == Say("user", <<"I'm seeing this error: ">> \o Interp(args["error"]))
      context == Say("user", <<"Context:\n">> \o Interp(args["context"]))
      guidance ==
        Say("ai", <<"I will analyze the error and provide step-by-step debugging guidance.">>)
  IN Outcome(TRUE, FALSE, <<>>,
             <<error>> \o (IF Truthy(args["context"]) THEN <<context>> ELSE <<>>)
               \o <<guidance>>)

\* the registrations, in file order: lines 68, 105, 141, 175
RegisteredTools == <<"greet", "calculate", "analyze", "smart-answer">>
\* lines 222, 248
RegisteredPrompts == <<"code-review", "debug">>
\* lines 188, 203: pattern and mimeType
RegisteredResources ==
  <<[pattern |-> Uri("docs:", <<"readme">>).s, mimeType |-> "text/plain",
     handler |-> "readme"],
    [pattern |-> Uri("user:", <<"{userId}">>).s, mimeType |-> "application/json",
     handler |-> "userProfile"]>>

InputOf(capability) ==
  CASE capability = "greet" -> greetInput
    [] capability = "calculate" -> calculateInput
    [] capability = "analyze" -> analyzeInput
    [] capability = "smart-answer" -> smartAnswerInput
    [] capability = "code-review" -> codeReviewInput
    [] capability = "debug" -> debugInput
    [] OTHER -> <<>>

----------------------------------------------------------------------------
(* The framework behind createServer(): registry, validation, execution  *)
(* engine and dispatcher, after spec.md sections 4.1-4.3, 6 and 7        *)

\* the text cut at every occurrence of the separator: the segments between
\* the start, the successive separators and the end
SplitAt(text, sep) ==
  LET cuts == {k \in 1..Len(text) : text[k] = sep}
      n == Cardinality(cuts)
      Cut(j) ==
        IF j = 0 THEN 0
        ELSE IF j = n + 1 THEN Len(text) + 1
        ELSE CHOOSE k \in cuts : Cardinality({h \in cuts : h <= k}) = j
  IN [j \in 1..(n + 1) |-> SubSeq(text, Cut(j - 1) + 1, Cut(j) - 1)]

\* a URI or pattern cut at every "/" (section 4.1)
FwSplit(text) == SplitAt(text, "/")

Placeholders == {"{userId}", "{id}"}

FwIsPlaceholder(segment) == Len(segment) = 1 /\ segment[1] \in Placeholders

FwIsTemplate(pattern) ==
  \E k \in 1..Len(FwSplit(pattern)) : FwIsPlaceholder(FwSplit(pattern)[k])

\* section 4.1: same number of segments, literal segments equal, a
\* placeholder facing a non-empty component
FwTemplateMatches(pattern, uri) ==
  LET ps == FwSplit(pattern)
      us == FwSplit(uri)
  IN /\ Len(ps) = Len(us)
     /\ \A k \in 1..Len(ps) :
          IF FwIsPlaceholder(ps[k]) THEN us[k] # <<>> ELSE ps[k] = us[k]

\* the component bound to the (single) placeholder of a matching template
FwExtract(pattern, uri) ==
  LET ps == FwSplit(pattern)
      us == FwSplit(uri)
      k == CHOOSE j \in 1..Len(ps) : FwIsPlaceholder(ps[j])
  IN us[k]

\* mutant: one scan in registration order, exact patterns given no precedence
FwMatchIn_OneScan(resources, uri) ==
  LET hit == {k \in 1..Len(resources) :
                IF FwIsTemplate(resources[k].pattern)
                  THEN FwTemplateMatches(resources[k].pattern, uri)
                  ELSE resources[k].pattern = uri}
      Min(S) == CHOOSE k \in S : \A j \in S : k <= j
  IN IF hit = {} THEN [index |-> 0, param |-> <<>>]
     ELSE [index |-> Min(hit),
           param |-> IF FwIsTemplate(resources[Min(hit)].pattern)
                       THEN FwExtract(resources[Min(hit)].pattern, uri)
                       ELSE <<>>]

\* matchResource over the registered resources: exact patterns first, then
\* templates in registration order; index 0 is NotFound
FwMatchIn(resources, uri) ==
  LET Exact(k) ==
        /\ ~FwIsTemplate(resources[k].pattern)
        /\ resources[k].pattern = uri
      Templ(k) ==
        /\ FwIsTemplate(resources[k].pattern)
        /\ FwTemplateMatches(resources[k].pattern, uri)
      exact == {[index |-> k, param |-> <<>>] :
                  k \in {h \in 1..Len(resources) :
                           Exact(h) /\ \A j \in 1..(h - 1) : ~Exact(j)}}
      templ == {[index |-> k, param |-> FwExtract(resources[k].pattern, uri)] :
                  k \in {h \in 1..Len(resources) :
                           Templ(h) /\ \A j \in 1..(h - 1) : ~Templ(j)}}
  IN IF exact # {} THEN CHOOSE r \in exact : TRUE
     ELSE IF templ # {} THEN CHOOSE r \in templ : TRUE
     ELSE [index |-> 0, param |-> <<>>]

\* matchResource on the registry of src/src/index.ts
FwMatchResource(uri) == FwMatchIn(RegisteredResources, uri)

InSeq(x, q) == \E k \in 1..Len(q) : q[k] = x

\* whether value v violates descriptor d (section 4.3, validation)
FwViolates(d, v) ==
  IF v.t = "undef" THEN d.required
  ELSE \/ v.t # d.type
       \/ /\ d.type = "str"
          /\ \/ d.minLength >= 0 /\ Len(v.s) < d.minLength
             \/ d.maxLength >= 0 /\ Len(v.s) > d.maxLength
             \/ d.enum # {} /\ v.s \notin d.enum

\* the first parameter of the schema that args violates; "" when none
FwValidate(schema, args) ==
  LET bad == {k \in 1..Len(schema) : FwViolates(schema[k].d, args[schema[k].key])}
  IN IF bad = {} THEN ""
     ELSE schema[CHOOSE k \in bad : \A j \in bad : k <= j].key

\* the arguments handed to validation and to the handler: an absent
\* `arguments` member is the empty object
FwArguments(p) == IF p.t = "obj" /\ p.hasArgs THEN p.args ELSE NoArgs

FwPreflightResponse ==
  Response(204, ("MCP-Protocol-Version" :> "2025-11-25") @@ PreflightHeaders,
           FALSE, NoBody)

FwListMethods ==
  {"tools/list", "resources/list", "resources/templates/list", "prompts/list"}

\* the patterns of the exact (or of the templated) resources, in
\* registration order
SelectPatternsIn(resources, templated) ==
  LET F[k \in 0..Len(resources)] ==
        IF k = 0 THEN <<>>
        ELSE IF FwIsTemplate(resources[k].pattern) = templated
          THEN Append(F[k - 1], resources[k].pattern)
          ELSE F[k - 1]
  IN F[Len(resources)]

SelectPatterns(templated) == SelectPatternsIn(RegisteredResources, templated)

FwList(method) ==
  CASE method = "tools/list" -> ListResult("tools", RegisteredTools)
    [] method = "prompts/list" -> ListResult("prompts", RegisteredPrompts)
    [] method = "resources/list" -> ListResult("resources", SelectPatterns(FALSE))
    [] OTHER -> ListResult("resourceTemplates", SelectPatterns(TRUE))

Answer(response, stages) ==
  [answered |-> TRUE, response |-> response, stages |-> stages, target |-> ""]

RouteTo(capability) ==
  [answered |-> FALSE, response |-> PreflightResponse, stages |-> <<"Routed">>,
   target |-> capability]

\* section 4.3: the early exits at Parsed and Routed, the listing methods,
\* and the capability an invocation is routed to; notFound is the HTTP
\* status of a -32601 answer (400 or 404, section 6)
FwRoute(v, notFound) ==
  LET method == Member(v, "method")
      params == ParamsOf(v)
      id == Member(v, "id")
      name == ParamsName(params)
      uri == IF params.t = "obj" THEN params.uri ELSE Undef
      m == IF method.t = "str" /\ Len(method.s) = 1 THEN method.s[1] ELSE ""
  IN CASE m \in FwListMethods ->
            Answer(jsonRpcResponse(FwList(m), id), <<"Routed", "Executed">>)
       [] m = "notifications/cancelled" ->
            Answer(jsonRpcResponse(EmptyResult, id), <<"Routed">>)
       [] m = "tools/call" ->
            IF name.t # "str"
              THEN Answer(jsonRpcError(-32600, <<"Invalid Request: params.name">>,
                                       id, 400), <<>>)
            ELSE IF ~InSeq(name.s[1], RegisteredTools)
              THEN Answer(jsonRpcError(-32601, <<"Unknown tool: ">> \o name.s,
                                       id, notFound), <<"Routed">>)
            ELSE RouteTo(name.s[1])
       [] m = "prompts/get" ->
            IF name.t # "str"
              THEN Answer(jsonRpcError(-32600, <<"Invalid Request: params.name">>,
                                       id, 400), <<>>)
            ELSE IF ~InSeq(name.s[1], RegisteredPrompts)
              THEN Answer(jsonRpcError(-32601, <<"Unknown prompt: ">> \o name.s,
                                       id, notFound), <<"Routed">>)
            ELSE RouteTo(name.s[1])
       [] m = "resources/read" ->
            IF uri.t # "str"
              THEN Answer(jsonRpcError(-32600, <<"Invalid Request: params.uri">>,
                                       id, 400), <<>>)
            ELSE IF FwMatchResource(uri.s).index = 0
              THEN Answer(jsonRpcError(-32601, <<"Unknown resource: ">> \o uri.s,
                                       id, notFound), <<"Routed">>)
            ELSE RouteTo(RegisteredResources[FwMatchResource(uri.s).index].handler)
       [] OTHER ->
            Answer(jsonRpcError(-32601, <<"Method not found: ">> \o Interp(method),
                                id, notFound), <<>>)

\* result coercion (section 4.2): a failure becomes a tool result with
\* isError; prompt fragments become messages, a single string one user
\* message; a resource text carries the registered mimeType
FwRole(role) == IF role = "ai" THEN "assistant" ELSE role

FwMessages(o) ==
  IF o.messages = <<>>
    THEN <<Say("user", o.text)>>
    ELSE [k \in 1..Len(o.messages) |->
            Say(FwRole(o.messages[k].role), o.messages[k].text)]

FwMimeType(capability) ==
  LET k == CHOOSE j \in 1..Len(RegisteredResources) :
             RegisteredResources[j].handler = capability
  IN RegisteredResources[k].mimeType

\* a tool's final value: a failure becomes a result with isError
FwCoerceTool(o) ==
  IF o.threw THEN ContentResult(<<"Error: ">> \o o.text, TRUE)
  ELSE ContentResult(o.text, FALSE)

FwCoerce(capability, o) ==
  IF InSeq(capability, RegisteredTools) THEN FwCoerceTool(o)
  ELSE IF InSeq(capability, RegisteredPrompts) THEN
    Result("messages", <<>>, <<>>, FALSE, "", FwMessages(o))
  ELSE Result("contents", <<>>, o.text, FALSE, FwMimeType(capability), <<>>)

\* the clarifications the client's model may return
Clarifications == {<<>>, <<"c">>}

Fw_Preflight ==
  /\ UNCHANGED coreVars
  /\ stage = "Received" /\ req.entry = "framework"
  /\ req.httpMethod = "OPTIONS"
  /\ Respond(FwPreflightResponse, <<>>)
  /\ UNCHANGED <<req, env, askSink, parsed, target, calls, gen, pending,
                 delivered, asks, final>>

Fw_NotPost ==
  /\ UNCHANGED coreVars
  /\ stage = "Received" /\ req.entry = "framework"
  /\ req.httpMethod # "OPTIONS" /\ req.httpMethod # "POST"
  /\ Respond(jsonRpcError(-32600, <<"Invalid Request">>, Null, 400), <<>>)
  /\ UNCHANGED <<req, env, askSink, parsed, target, calls, gen, pending,
                 delivered, asks, final>>

Fw_ParseError ==
  /\ UNCHANGED coreVars
  /\ stage = "Received" /\ req.entry = "framework"
  /\ req.httpMethod = "POST"
  /\ ~RequestJson(req.body).ok
  /\ Respond(jsonRpcError(-32700, <<"Parse error">>, Null, 400), <<>>)
  /\ UNCHANGED <<req, env, askSink, parsed, target, calls, gen, pending,
                 delivered, asks, final>>

Fw_Parse ==
  /\ UNCHANGED coreVars
  /\ stage = "Received" /\ req.entry = "framework"
  /\ req.httpMethod = "POST"
  /\ RequestJson(req.body).ok
  /\ parsed' = RequestJson(req.body).value
  /\ stage' = "Parsed"
  /\ path' = Append(path, "Parsed")
  /\ UNCHANGED <<req, env, askSink, target, calls, responses, gen, pending,
                 delivered, asks, final>>

\* an early exit, a listing, or the cancellation no-op
Fw_Answer ==
  /\ UNCHANGED coreVars
  /\ stage = "Parsed" /\ req.entry = "framework"
  /\ \E notFound \in {400, 404} :
       LET r == FwRoute(parsed, notFound)
       IN /\ r.answered
          /\ Respond(r.response, r.stages)
  /\ UNCHANGED <<req, env, askSink, parsed, target, calls, gen, pending,
                 delivered, asks, final>>

\* the request names a registered capability
Fw_Route ==
  /\ UNCHANGED coreVars
  /\ stage = "Parsed" /\ req.entry = "framework"
  /\ ~FwRoute(parsed, 404).answered
  /\ target' = FwRoute(parsed, 404).target
  /\ stage' = "Routed"
  /\ path' = Append(path, "Routed")
  /\ UNCHANGED <<req, env, askSink, parsed, calls, responses, gen, pending,
                 delivered, asks, final>>

\* validation fails: the handler is not invoked
Fw_Invalid ==
  /\ UNCHANGED coreVars
  /\ stage = "Routed" /\ req.entry = "framework"
  /\ LET field == FwValidate(InputOf(target), FwArguments(ParamsOf(parsed)))
     IN /\ field # ""
        /\ Respond(jsonRpcError(-32600, <<"Invalid Request: ", field>>,
                                Member(parsed, "id"), 400), <<>>)
  /\ UNCHANGED <<req, env, askSink, parsed, target, calls, gen, pending,
                 delivered, asks, final>>

\* the handler the request was routed to is entered (section 4.2): a plain
\* handler runs to its end, a generator is created, a callback-enabled
\* handler runs to its first suspension
Fw_Invoke ==
  /\ UNCHANGED coreVars
  /\ stage = "Routed" /\ req.entry = "framework"
  /\ LET args == FwArguments(ParamsOf(parsed))
         uri == ParamsOf(parsed).uri.s
     IN /\ FwValidate(InputOf(target), args) = ""
        /\ calls' = Append(calls, target)
        /\ CASE target = "analyze" ->
                  /\ stage' = "Executing"
                  /\ path' = path
                  /\ UNCHANGED <<final, asks>>
             [] target = "smart-answer" ->
                  LET r == smartAnswer(args, askSink)
                  IN IF ~r.askCalled
                       THEN /\ final' = r.outcome
                            /\ stage' = "Executed"
                            /\ path' = Append(path, "Executed")
                            /\ UNCHANGED asks
                     ELSE IF askSink
                       THEN /\ asks' = [asks EXCEPT !.calls = @ + 1,
                                                    !.waiting = TRUE]
                            /\ stage' = "Executing"
                            /\ path' = path
                            /\ UNCHANGED final
                     ELSE /\ final' = Threw(<<"SamplingUnavailable">>)
                          /\ asks' = [asks EXCEPT !.calls = @ + 1]
                          /\ stage' = "Executed"
                          /\ path' = Append(path, "Executed")
             [] OTHER ->
                  /\ final' =
                       CASE target = "greet" -> greet(args, env)
                         [] target = "calculate" -> calculate(args)
                         [] target = "code-review" -> codeReview(args)
                         [] target = "debug" -> debug(args)
                         [] target = "userProfile" ->
                              userProfile(FwMatchResource(uri).param)
                         [] OTHER -> readme
                  /\ stage' = "Executed"
                  /\ path' = Append(path, "Executed")
                  /\ UNCHANGED asks
  /\ UNCHANGED <<req, env, askSink, parsed, target, responses, gen, pending,
                 delivered>>

\* the engine pulls the next step of the generator: a progress step, which
\* it starts forwarding to the notify sink, or the final value
Fw_Pull ==
  /\ UNCHANGED coreVars
  /\ stage = "Executing" /\ target = "analyze"
  /\ ~pending.some
  /\ LET r == analyze(FwArguments(ParamsOf(parsed)), gen)
     IN /\ gen' = r.gen
        /\ IF r.done
             THEN /\ final' = r.outcome
                  /\ stage' = "Executed"
                  /\ path' = Append(path, "Executed")
                  /\ UNCHANGED pending
             ELSE /\ pending' = [some |-> TRUE, current |-> r.value.current,
                                 total |-> r.value.total]
                  /\ UNCHANGED <<final, stage, path>>
  /\ UNCHANGED <<req, env, askSink, parsed, target, calls, responses,
                 delivered, asks>>

\* the notification in flight reaches the notify sink
Fw_Notify ==
  /\ UNCHANGED coreVars
  /\ stage = "Executing" /\ pending.some
  /\ delivered' = Append(delivered, [current |-> pending.current,
                                     total |-> pending.total])
  /\ pending' = NoPending
  /\ UNCHANGED <<stage, req, env, askSink, parsed, target, path, calls,
                 responses, gen, asks, final>>

\* the client answers the sampling request; the handler resumes and returns
Fw_AskReply ==
  /\ UNCHANGED coreVars
  /\ stage = "Executing" /\ asks.waiting
  /\ \E c \in Clarifications :
       /\ asks' = [asks EXCEPT !.replies = @ + 1, !.waiting = FALSE,
                               !.clarification = c]
       /\ final' = smartAnswerResumed(FwArguments(ParamsOf(parsed)), c)
  /\ stage' = "Executed"
  /\ path' = Append(path, "Executed")
  /\ UNCHANGED <<req, env, askSink, parsed, target, calls, responses, gen,
                 pending, delivered>>

\* the final value is wrapped into the response
Fw_Respond ==
  /\ UNCHANGED coreVars
  /\ stage = "Executed" /\ req.entry = "framework"
  /\ Respond(jsonRpcResponse(FwCoerce(target, final), Member(parsed, "id")), <<>>)
  /\ UNCHANGED <<req, env, askSink, parsed, target, calls, gen, pending,
                 delivered, asks, final>>

----------------------------------------------------------------------------
(* The Handler Execution Engine taken alone (spec.md section 4.2):        *)
(* execute(handler, args, notifySink, askSink) on any handler of the      *)
(* three shapes                                                           *)

\* the longest handler body considered
MaxScript == 3

\* what a handler body may do before it returns: yield a progress step,
\* call ask, throw
HandlerKinds == {"Plain", "ProgressGenerating", "Callback-enabled"}

OpsOf(kind) ==
  CASE kind = "Plain" -> {"throw"}
    [] kind = "ProgressGenerating" -> {"yield", "throw"}
    [] OTHER -> {"ask", "throw"}

\* a throw ends the body: it is the last operation when there is one; a
\* progress-generating body calls createProgress(total) with any total, be
\* it more or fewer than the steps it goes on to yield
Handlers ==
  {h \in [kind : HandlerKinds,
          script : UNION {[1..n -> {"yield", "ask", "throw"}] : n \in 0..MaxScript},
          total : 0..MaxScript] :
     /\ \A k \in 1..Len(h.script) : h.script[k] \in OpsOf(h.kind)
     /\ \A k \in 1..(Len(h.script) - 1) : h.script[k] # "throw"
     /\ (h.total > 0) = (h.kind = "ProgressGenerating")}

\* the `yield step()` statements of a body
Yields(script) == Cardinality({k \in 1..Len(script) : script[k] = "yield"})

\* execute() is about to be called on any handler, with or without a sink
EngineInit ==
  /\ ServerInit /\ env = Undef
  /\ eng \in {[NoEngine EXCEPT !.handler = h, !.sink = a] :
                h \in Handlers, a \in BOOLEAN}
  /\ reg = NoRegistry
  /\ rep = NoRepeat
  /\ ver = NoVersion

\* mutant: the next step is pulled while a notification is still in flight
EngineRunning_Eager ==
  /\ eng.phase = "running" /\ ~eng.waiting

\* the handler may run on: it is not suspended in ask, and the engine is
\* not forwarding a notification
EngineRunning ==
  /\ eng.phase = "running" /\ eng.inflight = <<>> /\ ~eng.waiting

EngineOp ==
  IF eng.pc <= Len(eng.handler.script) THEN eng.handler.script[eng.pc] ELSE "return"

\* execute() enters the handler
Engine_Execute ==
  /\ eng.phase = "idle"
  /\ eng' = [eng EXCEPT !.phase = "running", !.pc = 1]
  /\ UNCHANGED <<serverVars, reg, rep, ver>>

\* the next step is pulled: a progress notification starts towards the sink
Engine_Yield ==
  /\ EngineRunning /\ EngineOp = "yield"
  /\ eng' = [eng EXCEPT
               !.inflight = Append(@, createProgressStep(eng.n, eng.handler.total)),
               !.n = @ + 1, !.pc = @ + 1]
  /\ UNCHANGED <<serverVars, reg, rep, ver>>

\* the notification reaches notifySink; only then is the next step pulled
Engine_Notify ==
  /\ eng.phase = "running" /\ eng.inflight # <<>>
  /\ eng' = [eng EXCEPT
               !.delivered = Append(@, Head(eng.inflight)),
               !.inflight = Tail(@)]
  /\ UNCHANGED <<serverVars, reg, rep, ver>>

\* mutant: an unavailable sink answers with an empty clarification
EngineAsk_Swallowed(e) ==
  [e EXCEPT !.asked = @ + 1, !.pc = @ + 1]

\* the handler calls askSink: it suspends when the sink is available, and
\* fails with SamplingUnavailable when it is not
EngineAsk(e) ==
  IF e.sink
    THEN [e EXCEPT !.asked = @ + 1, !.waiting = TRUE, !.pc = @ + 1]
    ELSE [e EXCEPT !.asked = @ + 1, !.phase = "returned",
                   !.outcome = Threw(<<"SamplingUnavailable">>)]

Engine_Ask ==
  /\ EngineRunning /\ EngineOp = "ask"
  /\ eng' = EngineAsk(eng)
  /\ UNCHANGED <<serverVars, reg, rep, ver>>

\* the client's clarification arrives and the handler resumes
Engine_AskReply ==
  /\ eng.phase = "running" /\ eng.waiting
  /\ eng' = [eng EXCEPT !.waiting = FALSE]
  /\ UNCHANGED <<serverVars, reg, rep, ver>>

\* the handler raises a failure of its own
Engine_Throw ==
  /\ EngineRunning /\ EngineOp = "throw"
  /\ eng' = [eng EXCEPT !.phase = "returned", !.outcome = Threw(<<"failure">>)]
  /\ UNCHANGED <<serverVars, reg, rep, ver>>

\* the handler returns its final value
Engine_Return ==
  /\ EngineRunning /\ EngineOp = "return"
  /\ eng' = [eng EXCEPT !.phase = "returned", !.outcome = Returned(<<"done">>)]
  /\ UNCHANGED <<serverVars, reg, rep, ver>>

\* the final value or the failure is coerced into the tool result
Engine_Coerce ==
  /\ eng.phase = "returned"
  /\ eng' = [eng EXCEPT !.phase = "done", !.result = FwCoerceTool(eng.outcome)]
  /\ UNCHANGED <<serverVars, reg, rep, ver>>

EngineNext ==
  \/ Engine_Execute
  \/ Engine_Yield
  \/ Engine_Notify
  \/ Engine_Ask
  \/ Engine_AskReply
  \/ Engine_Throw
  \/ Engine_Return
  \/ Engine_Coerce

SpecEngine == EngineInit /\ [][EngineNext]_vars

----------------------------------------------------------------------------
(* The Capability Registry taken alone (spec.md section 4.1): any sequence *)
(* of registrations, then lookups and listings                            *)

\* the most registrations made at startup
MaxRegistered == 3

RegNames == {"t1", "t2"}
RegDescriptions == {"d1", "d2"}
RegMimeTypes == {"text/plain", "application/json"}

\* patterns that overlap: two templates matching the same URIs, and an
\* exact pattern both of them match
RegPatterns ==
  {Uri("user:", <<"{userId}">>).s, Uri("user:", <<"{id}">>).s,
   Uri("user:", <<"me">>).s, Uri("docs:", <<"readme">>).s}

RegUris ==
  {Uri("user:", <<"me">>).s, Uri("user:", <<"1">>).s, Uri("user:", <<>>).s,
   Uri("user:", <<"1", "/", "2">>).s, Uri("docs:", <<"readme">>).s,
   Uri("docs:", <<"other">>).s}

RegKinds == {"tools", "prompts", "resources"}

\* the descriptors a registration call may be given
RegEntries(kind) ==
  IF kind = "resources"
    THEN [pattern : RegPatterns, mimeType : RegMimeTypes]
    ELSE [name : RegNames, description : RegDescriptions]

\* the registration key as text: the tool or prompt name, or the pattern
KeyOf(kind, e) == IF kind = "resources" THEN e.pattern ELSE <<e.name>>

Registered(r) == Len(r.tools) + Len(r.prompts) + Len(r.resources)

\* mutant: a second registration of a key replaces the first
FwRegister_Replace(r, kind, e) ==
  LET same == {k \in 1..Len(r[kind]) : KeyOf(kind, r[kind][k]) = KeyOf(kind, e)}
      call == [NoRegistryCall EXCEPT !.op = "register", !.kind = kind,
                                     !.key = KeyOf(kind, e)]
  IN IF same # {}
       THEN [r EXCEPT ![kind] = [k \in 1..Len(@) |-> IF k \in same THEN e ELSE @[k]],
                      !.last = [call EXCEPT !.failed = TRUE]]
       ELSE [r EXCEPT ![kind] = Append(@, e), !.last = call]

\* registerTool / registerPrompt / registerResource: DuplicateRegistration
\* when the key is already registered, otherwise the descriptor is added
\* after those registered before
FwRegister(r, kind, e) ==
  LET same == {k \in 1..Len(r[kind]) : KeyOf(kind, r[kind][k]) = KeyOf(kind, e)}
      call == [NoRegistryCall EXCEPT !.op = "register", !.kind = kind,
                                     !.key = KeyOf(kind, e)]
  IN IF same # {}
       THEN [r EXCEPT !.last = [call EXCEPT !.failed = TRUE]]
       ELSE [r EXCEPT ![kind] = Append(@, e), !.last = call]

\* listTools / listPrompts / listResources / listResourceTemplates
FwListIn(r, kind) ==
  CASE kind = "tools" -> [k \in 1..Len(r.tools) |-> <<r.tools[k].name>>]
    [] kind = "prompts" -> [k \in 1..Len(r.prompts) |-> <<r.prompts[k].name>>]
    [] kind = "resources" -> SelectPatternsIn(r.resources, FALSE)
    [] OTHER -> SelectPatternsIn(r.resources, TRUE)

\* findTool / findPrompt: the position of the name, 0 for NotFound
FwFind(entries, name) ==
  IF \E k \in 1..Len(entries) : entries[k].name = name
    THEN CHOOSE k \in 1..Len(entries) : entries[k].name = name
    ELSE 0

\* startup: nothing registered yet, no request served
RegistryInit ==
  /\ ServerInit /\ env = Undef
  /\ eng = NoEngine
  /\ reg = NoRegistry
  /\ rep = NoRepeat
  /\ ver = NoVersion

Reg_RegisterTool ==
  /\ ~reg.frozen /\ Registered(reg) < MaxRegistered
  /\ \E e \in RegEntries("tools") : reg' = FwRegister(reg, "tools", e)
  /\ UNCHANGED <<serverVars, eng, rep, ver>>

Reg_RegisterPrompt ==
  /\ ~reg.frozen /\ Registered(reg) < MaxRegistered
  /\ \E e \in RegEntries("prompts") : reg' = FwRegister(reg, "prompts", e)
  /\ UNCHANGED <<serverVars, eng, rep, ver>>

Reg_RegisterResource ==
  /\ ~reg.frozen /\ Registered(reg) < MaxRegistered
  /\ \E e \in RegEntries("resources") : reg' = FwRegister(reg, "resources", e)
  /\ UNCHANGED <<serverVars, eng, rep, ver>>

\* startup is over: the dispatcher begins serving, nothing is registered
\* from here on; one lookup or listing is then observed
Reg_Serve ==
  /\ ~reg.frozen
  /\ reg' = [reg EXCEPT !.frozen = TRUE, !.last = NoRegistryCall]
  /\ UNCHANGED <<serverVars, eng, rep, ver>>

Reg_MatchResource ==
  /\ reg.frozen /\ reg.last.op = ""
  /\ \E uri \in RegUris :
       reg' = [reg EXCEPT !.last =
                 [NoRegistryCall EXCEPT
                    !.op = "matchResource", !.kind = "resources", !.key = uri,
                    !.found = FwMatchIn(reg.resources, uri).index,
                    !.param = FwMatchIn(reg.resources, uri).param]]
  /\ UNCHANGED <<serverVars, eng, rep, ver>>

Reg_Find ==
  /\ reg.frozen /\ reg.last.op = ""
  /\ \E kind \in {"tools", "prompts"}, name \in RegNames :
       reg' = [reg EXCEPT !.last =
                 [NoRegistryCall EXCEPT
                    !.op = "find", !.kind = kind, !.key = <<name>>,
                    !.found = FwFind(reg[kind], name)]]
  /\ UNCHANGED <<serverVars, eng, rep, ver>>

Reg_List ==
  /\ reg.frozen /\ reg.last.op = ""
  /\ \E kind \in RegKinds \cup {"resourceTemplates"} :
       reg' = [reg EXCEPT !.last =
                 [NoRegistryCall EXCEPT !.op = "list", !.kind = kind,
                                        !.names = FwListIn(reg, kind)]]
  /\ UNCHANGED <<serverVars, eng, rep, ver>>

RegistryNext ==
  \/ Reg_RegisterTool
  \/ Reg_RegisterPrompt
  \/ Reg_RegisterResource
  \/ Reg_Serve
  \/ Reg_MatchResource
  \/ Reg_Find
  \/ Reg_List

SpecRegistry == RegistryInit /\ [][RegistryNext]_vars

----------------------------------------------------------------------------
(* admin/version.sh: one run of the script in a repository.  The script  *)
(* runs under `set -euo pipefail` (line 18): a command that fails ends it *)
(* with a non-zero status.  A text is a sequence of atoms: the words the  *)
(* script compares against are single atoms, a version is the sequence of *)
(* its characters.                                                        *)

\* the most arguments on the command line
MaxArgs == 2

MAIN_BRANCH == "main"
RELEASE_BRANCH == "release"

PushFlag == <<"--push">>

\* the version in package.json when the script starts
CurrentVersion == <<"1", ".", "2", ".", "3">>

\* arguments tried: the increments, the flag, explicit versions (one equal
\* to the current version), texts that are neither, and the empty argument
ArgValues ==
  {<<"patch">>, <<"minor">>, <<"major">>, PushFlag,
   <<"1", ".", "2", ".", "3">>, <<"2", ".", "0", ".", "0">>,
   <<"1", ".", "2">>, <<"banana">>, <<>>}

Branches == {"main", "release", "feature"}

Digits == {"0", "1", "2", "3", "4", "5", "6", "7", "8", "9"}

\* lines 56-65: the last argument other than --push; empty when there is none
BumpType(args) ==
  LET others == {k \in 1..Len(args) : args[k] # PushFlag}
  IN IF others = {} THEN <<>>
     ELSE args[CHOOSE k \in others : \A j \in others : j <= k]

\* lines 56-65: whether --push is among the arguments
PushBranches(args) == \E k \in 1..Len(args) : args[k] = PushFlag

\* line 124: =~ ^[0-9]+\.[0-9]+\.[0-9]+$
IsVersion(text) ==
  LET f == SplitAt(text, ".")
  IN /\ Len(f) = 3
     /\ \A k \in 1..3 :
          /\ f[k] # <<>>
          /\ \A j \in 1..Len(f[k]) : f[k][j] \in Digits

\* lines 105-107: cut -d. -fk, read as a number by $(( ))
Field(version, k) == DigitsValue(SplitAt(version, ".")[k])

VersionText(major, minor, patch) ==
  <<ToString(major), ".", ToString(minor), ".", ToString(patch)>>

\* lines 100-134: ok is FALSE when the function ends with `exit 1`
compute_next_version(version, bump) ==
  LET major == Field(version, 1)
      minor == Field(version, 2)
      patch == Field(version, 3)
  IN CASE bump = <<"major">> -> [ok |-> TRUE, value |-> VersionText(major + 1, 0, 0)]
       [] bump = <<"minor">> -> [ok |-> TRUE, value |-> VersionText(major, minor + 1, 0)]
       [] bump = <<"patch">> -> [ok |-> TRUE, value |-> VersionText(major, minor, patch + 1)]
       [] OTHER -> IF IsVersion(bump) THEN [ok |-> TRUE, value |-> bump]
                   ELSE [ok |-> FALSE, value |-> <<>>]

\* mutant: the check of the working tree and index left out
SafetyChecks_NoCleanCheck(repo) ==
  /\ repo.branch = MAIN_BRANCH
  /\ repo.release

\* lines 74-89: on main, git diff and git diff --cached quiet, release exists
SafetyChecks(repo) ==
  /\ repo.branch = MAIN_BRANCH
  /\ ~repo.unstaged /\ ~repo.staged
  /\ repo.release

\* the script ends with this status
Exit(v, status) == [v EXCEPT !.pc = "exited", !.status = status]

\* mutant: a cherry-pick that fails does not end the script
CherryPickConflict_GoesOn(v) ==
  [v EXCEPT !.repo.picking = TRUE, !.pc = "switch back"]

\* lines 171-175: the cherry-pick stops on a conflict
CherryPickConflict(v) == Exit([v EXCEPT !.repo.picking = TRUE], 1)

\* the script is started with any arguments in any repository
VersionInit ==
  /\ ServerInit /\ env = Undef
  /\ eng = NoEngine
  /\ reg = NoRegistry
  /\ rep = NoRepeat
  /\ \E args \in UNION {[1..n -> ArgValues] : n \in 0..MaxArgs},
        b \in Branches, u \in BOOLEAN, s \in BOOLEAN, t \in BOOLEAN, r \in BOOLEAN :
       LET repo == [NoRepo EXCEPT !.branch = b, !.unstaged = u, !.staged = s,
                                  !.untracked = t, !.release = r,
                                  !.package = CurrentVersion,
                                  !.main = <<CurrentVersion>>, !.originMain = 1]
       IN ver = [NoVersion EXCEPT !.pc = "start", !.args = args,
                                  !.repo = repo, !.before = repo]

\* lines 36-40: without arguments the version is read and written out
Version_Read ==
  /\ ver.pc = "start" /\ Len(ver.args) = 0
  /\ ver' = Exit([ver EXCEPT !.out = ver.repo.package], 0)
  /\ UNCHANGED <<serverVars, eng, reg, rep>>

\* lines 53-69: the arguments are parsed; without a bump argument, usage
Version_ParseArgs ==
  /\ ver.pc = "start" /\ Len(ver.args) > 0
  /\ LET v == [ver EXCEPT !.bump_type = BumpType(ver.args),
                          !.push_branches = PushBranches(ver.args)]
     IN ver' = IF v.bump_type = <<>> THEN Exit([v EXCEPT !.out = <<"Usage">>], 1)
               ELSE [v EXCEPT !.pc = "checks"]
  /\ UNCHANGED <<serverVars, eng, reg, rep>>

\* lines 74-89
Version_SafetyChecks ==
  /\ ver.pc = "checks"
  /\ ver' = IF SafetyChecks(ver.repo) THEN [ver EXCEPT !.pc = "compute"]
            ELSE Exit([ver EXCEPT !.out = <<"Error">>], 1)
  /\ UNCHANGED <<serverVars, eng, reg, rep>>

\* lines 94-137: the assignment of line 136 fails, and ends the script,
\* when compute_next_version exits in its subshell
Version_Compute ==
  /\ ver.pc = "compute"
  /\ LET next == compute_next_version(ver.repo.package, ver.bump_type)
     IN ver' = IF next.ok THEN [ver EXCEPT !.next_version = next.value, !.pc = "update"]
               ELSE Exit(ver, 1)
  /\ UNCHANGED <<serverVars, eng, reg, rep>>

\* lines 144-147: npm pkg set, then npm install, which may fail
Version_Update ==
  /\ ver.pc = "update"
  /\ LET v == [ver EXCEPT !.repo.package = ver.next_version,
                          !.repo.unstaged = (ver.next_version # ver.repo.package),
                          !.log = Append(@, "update")]
     IN \E installed \in BOOLEAN :
          ver' = IF installed THEN [v EXCEPT !.pc = "commit"] ELSE Exit(v, 1)
  /\ UNCHANGED <<serverVars, eng, reg, rep>>

\* lines 155-161: git add, git commit (which fails when nothing is staged),
\* git rev-parse HEAD
Version_Commit ==
  /\ ver.pc = "commit"
  /\ LET added == [ver EXCEPT !.repo.staged = ver.repo.unstaged,
                              !.repo.unstaged = FALSE]
     IN ver' = IF ~added.repo.staged THEN Exit(added, 1)
               ELSE [added EXCEPT !.repo.staged = FALSE,
                                  !.repo.main = Append(@, ver.next_version),
                                  !.commit_sha = Len(ver.repo.main) + 1,
                                  !.log = Append(@, "commit"),
                                  !.pc = "switch"]
  /\ UNCHANGED <<serverVars, eng, reg, rep>>

\* line 168
Version_SwitchRelease ==
  /\ ver.pc = "switch"
  /\ ver' = [ver EXCEPT !.repo.branch = RELEASE_BRANCH,
                        !.log = Append(@, "switch release"),
                        !.pc = "cherry-pick"]
  /\ UNCHANGED <<serverVars, eng, reg, rep>>

\* lines 170-175: git cherry-pick of commit_sha succeeds or stops on a conflict
Version_CherryPick ==
  /\ ver.pc = "cherry-pick"
  /\ \E picked \in BOOLEAN :
       ver' = IF picked
                THEN [ver EXCEPT !.repo.picked = Append(@, ver.commit_sha),
                                 !.log = Append(@, "cherry-pick"),
                                 !.pc = "switch back"]
                ELSE CherryPickConflict(ver)
  /\ UNCHANGED <<serverVars, eng, reg, rep>>

\* line 178
Version_SwitchBack ==
  /\ ver.pc = "switch back"
  /\ ver' = [ver EXCEPT !.repo.branch = MAIN_BRANCH,
                        !.log = Append(@, "switch main"),
                        !.pc = IF ver.push_branches THEN "push main" ELSE "done"]
  /\ UNCHANGED <<serverVars, eng, reg, rep>>

\* lines 183-186: git push origin main, which may fail
Version_PushMain ==
  /\ ver.pc = "push main"
  /\ \E pushed \in BOOLEAN :
       ver' = IF pushed
                THEN [ver EXCEPT !.repo.originMain = Len(ver.repo.main),
                                 !.log = Append(@, "push main"),
                                 !.pc = "push release"]
                ELSE Exit(ver, 1)
  /\ UNCHANGED <<serverVars, eng, reg, rep>>

\* lines 188-189: git push origin release, which may fail
Version_PushRelease ==
  /\ ver.pc = "push release"
  /\ \E pushed \in BOOLEAN :
       ver' = IF pushed
                THEN [ver EXCEPT !.repo.originRelease = Len(ver.repo.picked),
                                 !.log = Append(@, "push release"),
                                 !.pc = "done"]
                ELSE Exit(ver, 1)
  /\ UNCHANGED <<serverVars, eng, reg, rep>>

\* lines 191-203: the new version is written out
Version_Done ==
  /\ ver.pc = "done"
  /\ ver' = Exit([ver EXCEPT !.out = ver.next_version], 0)
  /\ UNCHANGED <<serverVars, eng, reg, rep>>

VersionNext ==
  \/ Version_Read
  \/ Version_ParseArgs
  \/ Version_SafetyChecks
  \/ Version_Compute
  \/ Version_Update
  \/ Version_Commit
  \/ Version_SwitchRelease
  \/ Version_CherryPick
  \/ Version_SwitchBack
  \/ Version_PushMain
  \/ Version_PushRelease
  \/ Version_Done

SpecVersion == VersionInit /\ [][VersionNext]_vars

----------------------------------------------------------------------------

(* The server serving requests *)

Next ==
  \/ NewRequest
  \/ EndRequest
  \/ SetGreeting
  \/ fetch_Preflight
  \/ fetch_NotPost
  \/ fetch_ParseError
  \/ fetch_Parse
  \/ fetch_Throw
  \/ fetch_Switch
  \/ Fw_Preflight
  \/ Fw_NotPost
  \/ Fw_ParseError
  \/ Fw_Parse
  \/ Fw_Answer
  \/ Fw_Route
  \/ Fw_Invalid
  \/ Fw_Invoke
  \/ Fw_Pull
  \/ Fw_Notify
  \/ Fw_AskReply
  \/ Fw_Respond

Spec == Init /\ [][Next]_vars

----------------------------------------------------------------------------
(* One request followed from its arrival to its end: once called, fetch   *)
(* runs on to its return or its throw (the awaits of request.json() and   *)
(* of the sinks resolve; a handler that terminates keeps stepping)        *)

\* fetch has just been called with any request
LiveInit ==
  /\ stage = "Received"
  /\ path = <<"Received">>
  /\ req \in [entry : Entries, httpMethod : HttpMethods, body : Bodies]
  /\ askSink \in BOOLEAN
  /\ env \in GreetingValues
  /\ parsed = NoParsed
  /\ target = ""
  /\ calls = <<>>
  /\ responses = <<>>
  /\ gen = NoGen
  /\ pending = NoPending
  /\ delivered = <<>>
  /\ asks = NoAsks
  /\ final = NoOutcome
  /\ eng = NoEngine
  /\ reg = NoRegistry
  /\ rep = NoRepeat
  /\ ver = NoVersion

Serve ==
  \/ fetch_Preflight
  \/ fetch_NotPost
  \/ fetch_ParseError
  \/ fetch_Parse
  \/ fetch_Throw
  \/ fetch_Switch
  \/ Fw_Preflight
  \/ Fw_NotPost
  \/ Fw_ParseError
  \/ Fw_Parse
  \/ Fw_Answer
  \/ Fw_Route
  \/ Fw_Invalid
  \/ Fw_Invoke
  \/ Fw_Pull
  \/ Fw_Notify
  \/ Fw_AskReply
  \/ Fw_Respond

SpecLive == LiveInit /\ [][Serve]_vars /\ WF_vars(Serve)

----------------------------------------------------------------------------
(* The server observed on a request that is sent again: the request, and *)
(* the result it got the first time, are remembered across requests       *)

\* the requests sent again: every tools/list and tools/call body
RepeatBodies ==
  {Body("object", Str(<<"tools/list">>), p, NumLit(<<"2">>)) : p \in OtherParams}
    \cup {Body("object", Str(<<"tools/call">>), p, NumLit(<<"2">>)) :
            p \in ToolCallParams}

\* the requests served in between
OtherRequests ==
  {[httpMethod |-> "POST", body |-> b] :
     b \in {Body("invalid", Undef, NoParams, Undef),
            Body("null", Undef, NoParams, Undef),
            Body("object", Str(<<"tools/list">>), NoParams, Null),
            Body("object", Str(<<"notifications/cancelled">>), NoParams, Null),
            Body("object", Str(<<"tools/call">>),
                 NamedParams("greet", [NoArgs EXCEPT !["name"] = Str(<<"a">>)]), Null),
            Body("object", Str(<<"tools/call">>), NamedParams("hello", NoArgs), Null)}}
    \cup {[httpMethod |-> h, body |-> Body("invalid", Undef, NoParams, Undef)] :
            h \in {"GET", "OPTIONS"}}

RepeatInit ==
  /\ ServerInit
  /\ eng = NoEngine
  /\ reg = NoRegistry
  /\ rep \in {[NoRepeat EXCEPT !.entry = e, !.body = b] :
                e \in Entries, b \in RepeatBodies}
  /\ ver = NoVersion

\* the request is sent (for the first time, or again)
Repeat_Request ==
  /\ stage = "Idle"
  /\ req' = [entry |-> rep.entry, httpMethod |-> "POST", body |-> rep.body]
  /\ askSink' \in BOOLEAN
  /\ stage' = "Received"
  /\ path' = <<"Received">>
  /\ UNCHANGED <<env, parsed, target, calls, responses, gen, pending,
                 delivered, asks, final, coreVars>>

\* another request is sent
Repeat_Other ==
  /\ stage = "Idle"
  /\ \E o \in OtherRequests :
       /\ o.body # rep.body
       /\ req' = [entry |-> rep.entry, httpMethod |-> o.httpMethod, body |-> o.body]
  /\ askSink' = FALSE
  /\ rep' = [rep EXCEPT !.between = @ \/ rep.some]
  /\ stage' = "Received"
  /\ path' = <<"Received">>
  /\ UNCHANGED <<env, parsed, target, calls, responses, gen, pending,
                 delivered, asks, final, eng, reg, ver>>

\* the first successful answer to the request is remembered
Repeat_Record ==
  /\ stage = "Responded" /\ ~rep.some
  /\ req.httpMethod = "POST" /\ req.body = rep.body
  /\ Len(responses) = 1
  /\ responses[1].hasBody /\ "result" \in responses[1].body.members
  /\ rep' = [rep EXCEPT !.some = TRUE, !.env = env, !.askSink = askSink,
                        !.clarification = asks.clarification,
                        !.result = responses[1].body.result]
  /\ UNCHANGED <<serverVars, eng, reg, ver>>

RepeatNext ==
  \/ Repeat_Request
  \/ Repeat_Other
  \/ Repeat_Record
  \/ EndRequest
  \/ SetGreeting
  \/ fetch_Preflight
  \/ fetch_NotPost
  \/ fetch_ParseError
  \/ fetch_Parse
  \/ fetch_Throw
  \/ fetch_Switch
  \/ Fw_Preflight
  \/ Fw_NotPost
  \/ Fw_ParseError
  \/ Fw_Parse
  \/ Fw_Answer
  \/ Fw_Route
  \/ Fw_Invalid
  \/ Fw_Invoke
  \/ Fw_Pull
  \/ Fw_Notify
  \/ Fw_AskReply
  \/ Fw_Respond

SpecRepeat == RepeatInit /\ [][RepeatNext]_vars

----------------------------------------------------------------------------
(* Properties *)

Ended == stage \in {"Responded", "Crashed"}

Answered == stage = "Responded" /\ Len(responses) = 1

\* the request was parsed into an object (it reached the method switch)
Dispatched == parsed.kind = "object"

Members(r) == r.body.members

IsSuccess(r) == r.hasBody /\ "result" \in Members(r) /\ "error" \notin Members(r)

IsError(r) == r.hasBody /\ "error" \in Members(r) /\ "result" \notin Members(r)

IsErrorOf(r, code) == IsError(r) /\ r.body.error.code = code

Range(q) == {q[k] : k \in 1..Len(q)}

\* C1: every request the dispatcher has finished with (the CORS preflight,
\* which has no JSON-RPC body by design, aside) was answered by exactly one
\* JSON-RPC response, and that response carries exactly one of `result`
\* and `error`.
C1_ExactlyOneResponse ==
  (Ended /\ req.httpMethod # "OPTIONS") =>
    /\ Len(responses) = 1
    /\ responses[1].hasBody
    /\ ("result" \in Members(responses[1])) # ("error" \in Members(responses[1]))

\* C2: on every method branch, the response's `id` is the request's `id`
\* (a string, a number or null), for results and for errors alike.
C2_IdEchoed ==
  (Answered /\ Dispatched /\ req.body.id.t \in {"str", "numlit", "null"}) =>
    /\ "id" \in Members(responses[1])
    /\ JsonParseScalar(responses[1].body.id) = JsonParseScalar(req.body.id)

C2_Witness ==
  /\ Answered /\ Dispatched /\ req.entry = "worker"
  /\ IsError(responses[1])
  /\ req.body.id = NumLit(<<"1", ".", "0">>)
  /\ responses[1].body.id = NumLit(<<"1">>)

----------------------------------------------------------------------------
(* The request in hand, as the client sent it *)

ReqParams == req.body.params

ReqName == IF ReqParams.t = "obj" THEN ReqParams.name ELSE Undef

ReqUri == IF ReqParams.t = "obj" THEN ReqParams.uri ELSE Undef

ReqArg(k) ==
  IF ReqParams.t = "obj" /\ ReqParams.hasArgs THEN ReqParams.args[k] ELSE Undef

ReqMethod(m) == Dispatched /\ req.body.method = Str(<<m>>)

CallsTool(tool) ==
  req.entry = "framework" /\ ReqMethod("tools/call") /\ ReqName = Str(<<tool>>)

GetsPrompt(prompt) ==
  req.entry = "framework" /\ ReqMethod("prompts/get") /\ ReqName = Str(<<prompt>>)

TheResult == responses[1].body.result

TheError == responses[1].body.error

\* C3: a tool handler that fails during tools/call is answered with HTTP
\* 200 and a `result` (no `error`) whose isError is true and whose text
\* carries the failure message; dividing by zero is such a failure, with
\* the message "Division by zero".
C3_HandlerFailureIsToolError ==
  /\ (Answered /\ req.entry = "framework" /\ final.some /\ final.threw) =>
       /\ responses[1].status = 200
       /\ IsSuccess(responses[1])
       /\ TheResult.isError
       /\ Range(final.text) \subseteq Range(TheResult.text)
  /\ (Answered /\ CallsTool("calculate")
        /\ ReqArg("operation") = Str(<<"divide">>)
        /\ ReqArg("a").t = "num" /\ ReqArg("b") = Num(0)) =>
       /\ responses[1].status = 200
       /\ IsSuccess(responses[1])
       /\ TheResult.isError
       /\ "Division by zero" \in Range(TheResult.text)

C3_Witness ==
  /\ Answered /\ CallsTool("calculate")
  /\ ReqArg("operation") = Str(<<"divide">>) /\ ReqArg("b") = Num(0)
  /\ calls = <<"calculate">>
  /\ TheResult.isError

BodyInvalid == stage # "Idle" /\ req.body.kind = "invalid"

\* C4 as stated: a request whose body is not valid JSON is answered with
\* a JSON-RPC error of code -32700, is never routed, and no handler runs.
C4_InvalidJsonIsParseError ==
  BodyInvalid =>
    /\ "Routed" \notin Range(path)
    /\ calls = <<>>
    /\ Ended => (Answered /\ IsErrorOf(responses[1], -32700))

\* C4 amended: a POST request whose body is not valid JSON is answered
\* with a JSON-RPC error of code -32700; no request with such a body is
\* ever routed, and no handler runs for it.
C4_PostInvalidJsonIsParseError ==
  BodyInvalid =>
    /\ "Routed" \notin Range(path)
    /\ "Parsed" \notin Range(path)
    /\ calls = <<>>
    /\ (Ended /\ req.httpMethod = "POST") =>
         (Answered /\ IsErrorOf(responses[1], -32700))

C4_Witness ==
  /\ BodyInvalid /\ req.entry = "worker" /\ req.httpMethod = "POST"
  /\ Answered /\ IsErrorOf(responses[1], -32700)

SupportedMethods(entry) ==
  IF entry = "worker"
    THEN {"tools/list", "tools/call", "notifications/cancelled"}
    ELSE {"tools/list", "tools/call", "resources/list",
          "resources/templates/list", "resources/read", "prompts/list",
          "prompts/get", "notifications/cancelled"}

\* the body was parsed and its method is missing or not supported
MethodUnsupported ==
  /\ "Parsed" \in Range(path)
  /\ \/ req.body.kind # "object"
     \/ req.body.method \notin {Str(<<m>>) : m \in SupportedMethods(req.entry)}

\* C5: a parsed request whose method is missing or unsupported is answered
\* with a JSON-RPC error of code -32601 and a non-2xx status, and no handler
\* is invoked.
C5_MethodNotFound ==
  (Ended /\ MethodUnsupported) =>
    /\ Len(responses) = 1
    /\ IsErrorOf(responses[1], -32601)
    /\ responses[1].status \notin 200..299
    /\ calls = <<>>

\* user://X with X non-empty and free of "/"
IsUserUri(u) ==
  /\ Len(u) >= 4
  /\ SubSeq(u, 1, 3) = <<"user:", "/", "/">>
  /\ \A k \in 4..Len(u) : u[k] # "/"

\* the request names a tool, prompt or resource URI that is not registered
NamesUnregistered ==
  \/ /\ req.entry = "worker" /\ ReqMethod("tools/call")
     /\ ReqName.t = "str" /\ ReqName # Str(<<"hello">>)
  \/ /\ req.entry = "framework" /\ ReqMethod("tools/call")
     /\ ReqName.t = "str"
     /\ ReqName.s \notin {<<"greet">>, <<"calculate">>, <<"analyze">>,
                          <<"smart-answer">>}
  \/ /\ req.entry = "framework" /\ ReqMethod("prompts/get")
     /\ ReqName.t = "str" /\ ReqName.s \notin {<<"code-review">>, <<"debug">>}
  \/ /\ req.entry = "framework" /\ ReqMethod("resources/read")
     /\ ReqUri.t = "str"
     /\ ReqUri.s # <<"docs:", "/", "/", "readme">> /\ ~IsUserUri(ReqUri.s)

NamedCapability == IF ReqMethod("resources/read") THEN ReqUri.s ELSE ReqName.s

\* C6: a tools/call, resources/read or prompts/get request naming a tool,
\* URI or prompt that is not registered is answered with a JSON-RPC error
\* of code -32601 whose message names it, and no handler is invoked.
C6_UnknownCapability ==
  (Answered /\ NamesUnregistered) =>
    /\ IsErrorOf(responses[1], -32601)
    /\ SubSeq(TheError.message, 2, Len(TheError.message)) = NamedCapability
    /\ calls = <<>>

C6_Witness ==
  /\ Answered /\ req.entry = "worker" /\ ReqMethod("tools/call")
  /\ ReqName = Str(<<"nope">>)
  /\ IsErrorOf(responses[1], -32601)
  /\ TheError.message = <<"Unknown tool: ", "nope">>

\* tools/call with no params, or with params that carry no name
MalformedToolCall ==
  ReqMethod("tools/call") /\ (ReqParams.t # "obj" \/ ReqParams.name.t = "undef")

\* C7 as stated: a request whose params are malformed for its method
\* (tools/call without params or without a name) is answered with a
\* JSON-RPC error of code -32600.
C7_MalformedParamsInvalidRequest ==
  (Answered /\ MalformedToolCall) => IsErrorOf(responses[1], -32600)

\* C7 amended: the worker answers a tools/call without params or without
\* a name with the JSON-RPC error -32601 "Unknown tool: undefined" (HTTP
\* 400) and runs no handler.
C7_WorkerMalformedParamsUnknownTool ==
  (Answered /\ MalformedToolCall /\ req.entry = "worker") =>
    /\ IsErrorOf(responses[1], -32601)
    /\ TheError.message = <<"Unknown tool: ", "undefined">>
    /\ responses[1].status = 400
    /\ calls = <<>>

C7_Witness ==
  /\ Answered /\ MalformedToolCall /\ req.entry = "worker"
  /\ ReqParams.t = "undef"
  /\ IsErrorOf(responses[1], -32601)

LengthWithin(v, lo, hi) == v.t = "str" /\ Len(v.s) >= lo /\ Len(v.s) <= hi

Capabilities ==
  {"greet", "calculate", "analyze", "smart-answer", "code-review", "debug"}

Names(capability) ==
  IF capability \in {"code-review", "debug"}
    THEN GetsPrompt(capability) ELSE CallsTool(capability)

\* the fields of the request's arguments that break a constraint the
\* capability declares (src/src/index.ts lines 60-67, 96-104, 133-140,
\* 168-174, 218-221, 237-247)
Offending(capability) ==
  CASE capability = "greet" ->
         {f \in {"name"} : ~LengthWithin(ReqArg(f), 1, 100)}
    [] capability = "calculate" ->
         {f \in {"operation"} :
            ReqArg(f) \notin {Str(<<"add">>), Str(<<"subtract">>),
                              Str(<<"multiply">>), Str(<<"divide">>)}}
           \cup {f \in {"a", "b"} : ReqArg(f).t # "num"}
    [] capability = "analyze" ->
         {f \in {"topic"} : ~LengthWithin(ReqArg(f), 3, 200)}
    [] capability = "smart-answer" ->
         {f \in {"question"} : ReqArg(f).t # "str" \/ Len(ReqArg(f).s) < 5}
    [] capability = "code-review" ->
         {f \in {"code"} : ReqArg(f).t # "str"}
           \cup {f \in {"language"} : ReqArg(f).t \notin {"str", "undef"}}
    [] OTHER ->
         {f \in {"error"} : ReqArg(f).t # "str" \/ Len(ReqArg(f).s) < 1}
           \cup {f \in {"context"} :
                   /\ ReqArg(f).t # "undef"
                   /\ ~LengthWithin(ReqArg(f), 0, 5000)}

\* C8: the arguments of a tools/call or prompts/get are checked against the
\* capability's input schema before its handler runs: the handler body is
\* entered only with arguments that meet every constraint, and a request
\* that breaks one is answered with a JSON-RPC error naming an offending
\* field, the handler never entered.
C8_ValidatedBeforeHandler ==
  \A capability \in Capabilities :
    Names(capability) =>
      /\ (capability \in Range(calls)) => (Offending(capability) = {})
      /\ (Answered /\ Offending(capability) # {}) =>
           /\ IsError(responses[1])
           /\ calls = <<>>
           /\ Offending(capability) \cap Range(TheError.message) # {}

C8_Witness ==
  /\ Answered /\ CallsTool("greet") /\ ReqArg("name") = Str(<<>>)
  /\ IsError(responses[1])
  /\ "name" \in Range(TheError.message)
  /\ calls = <<>>

\* C9: an analyze invocation (N = 3 declared steps) delivers exactly the
\* notifications 1/3, 2/3, 3/3, in that order, all before its final
\* value; once the final value exists nothing is in flight, nothing more
\* is delivered and no further step is pulled.
C9_ProgressBeforeResult ==
  (req.entry = "framework" /\ "analyze" \in Range(calls)) =>
    /\ calls = <<"analyze">>
    /\ Len(delivered) <= 3
    /\ \A k \in 1..Len(delivered) : delivered[k] = [current |-> k, total |-> 3]
    /\ final.some =>
         /\ Len(delivered) = 3
         /\ ~pending.some
         /\ gen.pc = 4
    /\ Answered => (final.some /\ IsSuccess(responses[1]))

C9_Witness ==
  /\ Answered /\ CallsTool("analyze") /\ calls = <<"analyze">>
  /\ delivered = <<[current |-> 1, total |-> 3], [current |-> 2, total |-> 3],
                   [current |-> 3, total |-> 3]>>
  /\ ~TheResult.isError

\* C10: without a sampling sink, smart-answer never calls ask and answers
\* "Answer to: <question>" as a non-error result; with one, it calls ask
\* exactly once and its result exists only after the clarification came
\* back.
C10_SmartAnswerSampling ==
  (req.entry = "framework" /\ "smart-answer" \in Range(calls)) =>
    /\ calls = <<"smart-answer">>
    /\ ~askSink =>
         /\ asks.calls = 0
         /\ Answered =>
              /\ IsSuccess(responses[1])
              /\ ~TheResult.isError
              /\ TheResult.text = <<"Answer to: ">> \o ReqArg("question").s
    /\ askSink =>
         /\ asks.calls <= 1
         /\ final.some => (asks.calls = 1 /\ asks.replies = 1)
         /\ Answered =>
              /\ final.some
              /\ IsSuccess(responses[1])
              /\ ~TheResult.isError

C10_Witness ==
  /\ Answered /\ CallsTool("smart-answer") /\ ~askSink
  /\ calls = <<"smart-answer">>
  /\ asks.calls = 0
  /\ TheResult.text = <<"Answer to: ">> \o Pad(5)

----------------------------------------------------------------------------
(* The execution engine: sampling *)

\* the handler has called ask although the sink is unavailable
AskedUnavailable == eng.asked > 0 /\ ~eng.sink

\* C11: a handler that calls the ask sink while it is unavailable fails
\* with SamplingUnavailable, and the failure is not swallowed: the handler
\* does not run on, and the invocation ends as a tool result with isError
\* whose text carries the condition, never as a normal result
C11_SamplingUnavailableSurfaces ==
  AskedUnavailable =>
    /\ eng.phase \in {"returned", "done"}
    /\ eng.asked = 1
    /\ eng.outcome = Threw(<<"SamplingUnavailable">>)
    /\ eng.phase = "done" =>
         /\ eng.result.t = "content"
         /\ eng.result.isError
         /\ eng.result.text = <<"Error: ", "SamplingUnavailable">>

C11_Witness ==
  /\ AskedUnavailable
  /\ eng.phase = "done"
  /\ eng.handler.kind = "Callback-enabled"
  /\ eng.result.isError

----------------------------------------------------------------------------
(* The registry: resource lookup *)

\* matchResource has just answered
Matched == reg.last.op = "matchResource"

\* the registered entries whose exact pattern is the URI looked up, and the
\* registered templates that match it
ExactHits ==
  {k \in 1..Len(reg.resources) :
     ~FwIsTemplate(reg.resources[k].pattern) /\ reg.resources[k].pattern = reg.last.key}

TemplateHits ==
  {k \in 1..Len(reg.resources) :
     /\ FwIsTemplate(reg.resources[k].pattern)
     /\ FwTemplateMatches(reg.resources[k].pattern, reg.last.key)}

\* C12: a lookup returns at most one descriptor: the entry whose exact
\* pattern is the URI when there is one, even if a template registered
\* earlier matches too; otherwise the matching template registered first;
\* NotFound only when nothing matches
C12_ExactFirstThenFirstTemplate ==
  Matched =>
    /\ reg.last.found \in 0..Len(reg.resources)
    /\ Cardinality(ExactHits) <= 1
    /\ ExactHits # {} => reg.last.found \in ExactHits
    /\ (ExactHits = {} /\ TemplateHits # {}) =>
         /\ reg.last.found \in TemplateHits
         /\ \A k \in TemplateHits : reg.last.found <= k
    /\ (ExactHits = {} /\ TemplateHits = {}) => reg.last.found = 0

\* an exact entry wins over two templates registered before it
C12_Witness ==
  /\ Matched
  /\ Cardinality(TemplateHits) = 2
  /\ ExactHits = {3}
  /\ reg.last.found = 3

\* no exact entry, two templates match: the one registered first is returned
C12_SeveralTemplates ==
  /\ Matched
  /\ ExactHits = {}
  /\ Cardinality(TemplateHits) = 2
  /\ reg.last.found = 1
  /\ reg.last.param = <<"1">>

----------------------------------------------------------------------------
(* Resources: the user://{userId} template *)

ReadsResource ==
  req.entry = "framework" /\ ReqMethod("resources/read") /\ ReqUri.t = "str"

\* the part of user://X after the two slashes
UserId(u) == SubSeq(u, 4, Len(u))

\* the value of the "id" member of a profile text
ProfileId(text) ==
  LET closing == {k \in 4..Len(text) : text[k] = "\""}
      stop == CHOOSE k \in closing : \A j \in closing : k <= j
  IN SubSeq(text, 4, stop - 1)

\* C13: resources/read of user://X is matched by the template
\* user://{userId} exactly when X is non-empty and holds no further "/"
\* (same number of segments, literal segments identical, the placeholder
\* facing a non-empty component); it then returns a profile whose id is X
\* with mimeType application/json; user:// (empty id), a URI with one more
\* segment and a URI of another scheme never reach the profile handler
C13_TemplateMatchExtractsId ==
  (Answered /\ ReadsResource) =>
    /\ IsUserUri(ReqUri.s) =>
         /\ IsSuccess(responses[1])
         /\ calls = <<"userProfile">>
         /\ TheResult.t = "contents"
         /\ TheResult.mimeType = "application/json"
         /\ SubSeq(TheResult.text, 1, 3) = <<"{", "\"id\":", "\"">>
         /\ ProfileId(TheResult.text) = UserId(ReqUri.s)
    /\ ~IsUserUri(ReqUri.s) => "userProfile" \notin Range(calls)
    /\ (SubSeq(ReqUri.s, 1, 3) = <<"user:", "/", "/">> /\ ~IsUserUri(ReqUri.s)) =>
         IsErrorOf(responses[1], -32601) /\ calls = <<>>

C13_Witness ==
  /\ Answered /\ ReadsResource
  /\ ReqUri.s = <<"user:", "/", "/", "4", "5", "6">>
  /\ ProfileId(TheResult.text) = <<"4", "5", "6">>
  /\ TheResult.mimeType = "application/json"

\* user:// with an empty id is answered as an unknown resource
C13_EmptyIdRejected ==
  /\ Answered /\ ReadsResource
  /\ ReqUri.s = <<"user:", "/", "/">>
  /\ IsErrorOf(responses[1], -32601)

----------------------------------------------------------------------------
(* Listing the tools *)

ListsTools == ReqMethod("tools/list")

\* the tools in the order the source registers them: src/unnamed/part_004
\* line 45; src/src/index.ts lines 68, 105, 141, 175
RegistrationOrder ==
  IF req.entry = "worker" THEN <<"hello">>
  ELSE <<"greet", "calculate", "analyze", "smart-answer">>

CandidateNames ==
  {"hello", "greet", "calculate", "analyze", "smart-answer", "nope"}

\* a tools/call naming n is not turned away as an unknown tool
Callable(n) ==
  IF req.entry = "worker"
    THEN "result" \in Members(fetch_Route(Str(<<"tools/call">>),
                                           NamedParams(n, NoArgs), Null, env).response)
    ELSE ~FwRoute(Body("object", Str(<<"tools/call">>), NamedParams(n, NoArgs), Null),
                  404).answered

\* the request in hand is the remembered one, answered before
AnsweredBefore == rep.some /\ req.httpMethod = "POST" /\ req.body = rep.body

\* C14: tools/list answers with the names of exactly the tools a tools/call
\* can reach, in registration order and without duplicates, and with the
\* same result as the first time whatever was served or changed in between
C14_ToolsListStable ==
  (Answered /\ ListsTools) =>
    /\ IsSuccess(responses[1])
    /\ TheResult.t = "tools"
    /\ TheResult.names = RegistrationOrder
    /\ \A i, j \in 1..Len(TheResult.names) :
         TheResult.names[i] = TheResult.names[j] => i = j
    /\ \A n \in CandidateNames : n \in Range(TheResult.names) <=> Callable(n)
    /\ AnsweredBefore => TheResult = rep.result

\* the list is asked for again after other requests and another GREETING
C14_Witness ==
  /\ Answered /\ ListsTools
  /\ AnsweredBefore /\ rep.between /\ env # rep.env
  /\ Len(TheResult.names) = 4

----------------------------------------------------------------------------
(* The registry: duplicate registrations *)

KeyRegistered(r, kind, key) ==
  \E k \in 1..Len(r[kind]) : KeyOf(kind, r[kind][k]) = key

\* this step is a registration call
RegistrationStep == ~reg.frozen /\ reg'.last.op = "register" /\ ~reg'.frozen

\* every lookup and every list answers after the step as it did before
SameAnswers ==
  /\ \A uri \in RegUris :
       FwMatchIn(reg'.resources, uri) = FwMatchIn(reg.resources, uri)
  /\ \A kind \in {"tools", "prompts"}, name \in RegNames :
       /\ FwFind(reg'[kind], name) = FwFind(reg[kind], name)
       /\ FwFind(reg[kind], name) # 0 =>
            reg'[kind][FwFind(reg[kind], name)] = reg[kind][FwFind(reg[kind], name)]
  /\ \A kind \in RegKinds \cup {"resourceTemplates"} :
       FwListIn(reg', kind) = FwListIn(reg, kind)

\* C15: registering a tool name, a prompt name or a resource pattern that
\* is already registered fails with DuplicateRegistration and leaves every
\* earlier registration in place: the descriptors, the lookups and the
\* lists are as before the call; a key not yet registered is accepted
C15_DuplicateRegistrationRejected ==
  [][RegistrationStep =>
       IF KeyRegistered(reg, reg'.last.kind, reg'.last.key)
         THEN /\ reg'.last.failed
              /\ reg'.tools = reg.tools
              /\ reg'.prompts = reg.prompts
              /\ reg'.resources = reg.resources
              /\ SameAnswers
         ELSE /\ ~reg'.last.failed
              /\ KeyRegistered(reg', reg'.last.kind, reg'.last.key)]_vars

\* a pattern registered twice, after another resource was registered
C15_Witness ==
  /\ reg.last.op = "register" /\ reg.last.failed
  /\ reg.last.kind = "resources"
  /\ Len(reg.resources) = 2
  /\ reg.resources[1].pattern = reg.last.key

----------------------------------------------------------------------------
(* Prompts *)

Roles(messages) == [k \in 1..Len(messages) |-> messages[k].role]

\* C16: prompts/get on code-review, whose handler returns a single string,
\* yields exactly one message, of role user, carrying that string, with or
\* without `language`
C16_SingleStringIsOneUserMessage ==
  (Answered /\ GetsPrompt("code-review") /\ Offending("code-review") = {}) =>
    /\ IsSuccess(responses[1])
    /\ calls = <<"code-review">>
    /\ TheResult.t = "messages"
    /\ Roles(TheResult.messages) = <<"user">>
    /\ TheResult.messages[1].text[1] = "Please review this "
    /\ TheResult.messages[1].text[2] =
         (IF Truthy(ReqArg("language")) THEN ReqArg("language").s[1] ELSE "code")

C16_Witness ==
  /\ Answered /\ GetsPrompt("code-review")
  /\ ReqArg("code") = Str(<<"a">>) /\ ReqArg("language") = Str(<<"a">>)
  /\ Len(TheResult.messages) = 1

\* the same prompt without `language`
C16_WithoutLanguage ==
  /\ Answered /\ GetsPrompt("code-review")
  /\ ReqArg("code") = Str(<<"a">>) /\ ReqArg("language") = Undef
  /\ Roles(TheResult.messages) = <<"user">>

\* C17: prompts/get on debug yields the builder's messages in call order:
\* the user's error message and the assistant's turn, and between them,
\* when a non-empty context is given, exactly one more user message
\* carrying the context; nothing is reordered, merged or dropped
C17_DebugMessagesInCallOrder ==
  (Answered /\ GetsPrompt("debug") /\ Offending("debug") = {}) =>
    LET ms == TheResult.messages
        guidance ==
          <<"I will analyze the error and provide step-by-step debugging guidance.">>
    IN /\ IsSuccess(responses[1])
       /\ calls = <<"debug">>
       /\ TheResult.t = "messages"
       /\ ms[1].text = <<"I'm seeing this error: ">> \o ReqArg("error").s
       /\ ms[Len(ms)].text = guidance
       /\ IF Truthy(ReqArg("context"))
            THEN /\ Roles(ms) = <<"user", "user", "assistant">>
                 /\ ms[2].text = <<"Context:\n">> \o ReqArg("context").s
            ELSE Roles(ms) = <<"user", "assistant">>

C17_Witness ==
  /\ Answered /\ GetsPrompt("debug")
  /\ ReqArg("error") = Str(<<"a">>) /\ ReqArg("context") = Str(<<"a">>)
  /\ Len(TheResult.messages) = 3

\* the same prompt without context: two messages
C17_WithoutContext ==
  /\ Answered /\ GetsPrompt("debug")
  /\ ReqArg("error") = Str(<<"a">>) /\ ReqArg("context") = Undef
  /\ Len(TheResult.messages) = 2

----------------------------------------------------------------------------
(* A tools/call sent again *)

\* a tools/call answered with a result, sent before and answered then too
CalledAgain ==
  /\ Answered /\ ReqMethod("tools/call") /\ IsSuccess(responses[1])
  /\ AnsweredBefore

\* C18 as stated: the same tools/call with the same arguments gets the same
\* result content every time
C18_RepeatedCallSameContent ==
  CalledAgain => TheResult = rep.result

\* what the handlers read besides the arguments is as it was the first
\* time: GREETING for the greeting tools, the ask sink and the client's
\* clarification for smart-answer
SameSurroundings ==
  /\ ReqName.s \in {<<"greet">>, <<"hello">>} => env = rep.env
  /\ ReqName.s = <<"smart-answer">> =>
       /\ askSink = rep.askSink
       /\ asks.clarification = rep.clarification

\* C18 as amended: the same tools/call with the same arguments gets the
\* same result content whatever was served in between, provided GREETING
\* (greeting tools) and the sampling sink and clarification (smart-answer)
\* are the same as the first time
C18_RepeatedCallSameContentSameSurroundings ==
  (CalledAgain /\ SameSurroundings) => TheResult = rep.result

C18_Witness ==
  /\ CalledAgain /\ rep.between
  /\ req.entry = "framework" /\ ReqName.s = <<"greet">>
  /\ env = Str(<<"Howdy">>) /\ rep.env = env
  /\ TheResult = rep.result
  /\ TheResult.text[1] = "Howdy"

\* with GREETING and the sink unchanged, smart-answer answers the same
\* question differently when the client's clarification differs
C18_ClarificationDiffers ==
  /\ CalledAgain /\ ReqName.s = <<"smart-answer">>
  /\ askSink /\ rep.askSink
  /\ asks.clarification # rep.clarification
  /\ TheResult # rep.result

----------------------------------------------------------------------------
(* Cancellation *)

Cancels == ReqMethod("notifications/cancelled")

----------------------------------------------------------------------------
(* Response headers *)

HasHeader(r, name) == name \in DOMAIN r.headers

AllowsAnyOrigin(r) ==
  HasHeader(r, "Access-Control-Allow-Origin")
    /\ r.headers["Access-Control-Allow-Origin"] = "*"

\* C20 as stated: every response returned, the answer to an OPTIONS
\* preflight and every error response included, carries MCP-Protocol-Version
\* and Access-Control-Allow-Origin: *
C20_EveryResponseCarriesHeaders ==
  \A k \in 1..Len(responses) :
    HasHeader(responses[k], "MCP-Protocol-Version") /\ AllowsAnyOrigin(responses[k])

\* C20 as amended: every JSON-RPC response, success or error, carries
\* MCP-Protocol-Version and Access-Control-Allow-Origin: *; the answer to an
\* OPTIONS preflight carries Access-Control-Allow-Origin: *, and the one the
\* hand-written dispatcher gives carries no MCP-Protocol-Version
C20_JsonRpcResponsesCarryHeaders ==
  \A k \in 1..Len(responses) :
    /\ AllowsAnyOrigin(responses[k])
    /\ responses[k].hasBody => HasHeader(responses[k], "MCP-Protocol-Version")
    /\ (req.entry = "worker" /\ req.httpMethod = "OPTIONS") =>
         /\ ~responses[k].hasBody
         /\ ~HasHeader(responses[k], "MCP-Protocol-Version")

\* an error response, with both headers
C20_Witness ==
  /\ Answered /\ req.entry = "worker"
  /\ IsErrorOf(responses[1], -32700)
  /\ HasHeader(responses[1], "MCP-Protocol-Version")
  /\ AllowsAnyOrigin(responses[1])

\* the preflight answer of the hand-written dispatcher
C20_PreflightWithoutVersion ==
  /\ Answered /\ req.entry = "worker" /\ req.httpMethod = "OPTIONS"
  /\ responses[1].status = 204
  /\ ~HasHeader(responses[1], "MCP-Protocol-Version")

----------------------------------------------------------------------------
(* The CORS preflight *)

IsPreflight == stage # "Idle" /\ req.httpMethod = "OPTIONS"

\* C21: an OPTIONS request is answered 204 with an empty body before any
\* JSON-RPC parsing: whatever its body holds, the body is never parsed, the
\* request enters no stage between Received and Responded, it is routed to
\* no capability, no handler runs, and fetch does not throw
C21_PreflightBeforeParsing ==
  IsPreflight =>
    /\ parsed = NoParsed
    /\ target = ""
    /\ calls = <<>>
    /\ ~final.some /\ ~pending.some /\ delivered = <<>> /\ asks = NoAsks
    /\ stage \in {"Received", "Responded"}
    /\ Range(path) \subseteq {"Received", "Responded"}
    /\ stage = "Responded" =>
         /\ Len(responses) = 1
         /\ responses[1].status = 204
         /\ ~responses[1].hasBody
         /\ responses[1].body = NoBody

\* a preflight whose body is not JSON
C21_Witness ==
  /\ Answered /\ IsPreflight /\ req.entry = "worker"
  /\ req.body.kind = "invalid"
  /\ responses[1].status = 204
  /\ path = <<"Received", "Responded">>

\* a preflight whose body is a well-formed tools/call of a registered tool
C21_PreflightWithToolCall ==
  /\ Answered /\ IsPreflight
  /\ req.body.kind = "object"
  /\ req.body.method = Str(<<"tools/call">>)
  /\ ParamsName(req.body.params) \in {Str(<<"hello">>), Str(<<"greet">>)}
  /\ responses[1].status = 204
  /\ calls = <<>>

----------------------------------------------------------------------------
(* HTTP status of JSON-RPC responses *)

\* the statuses the error taxonomy gives each outcome
StatusesOf(r) ==
  CASE IsSuccess(r) -> {200}
    [] IsErrorOf(r, -32700) -> {400}
    [] IsErrorOf(r, -32600) -> {400}
    [] IsErrorOf(r, -32601) -> {400, 404}
    [] OTHER -> {}

\* the request was refused for its HTTP method (neither POST nor OPTIONS)
RefusedForMethod == req.httpMethod \notin {"POST", "OPTIONS"}

\* C22 as stated: a success response has status 200, a -32700 error 400, a
\* -32600 error 400 (the answer to a non-POST request included), a -32601
\* error 400 or 404
C22_StatusFixedByOutcome ==
  \A k \in 1..Len(responses) :
    responses[k].hasBody => responses[k].status \in StatusesOf(responses[k])

\* C22 as amended: the same mapping for every JSON-RPC response to a POST
\* request; a non-POST request is answered -32600, and the hand-written
\* dispatcher gives that answer status 405
C22_StatusFixedByOutcomeOfPost ==
  \A k \in 1..Len(responses) :
    responses[k].hasBody =>
      IF RefusedForMethod
        THEN /\ IsErrorOf(responses[k], -32600)
             /\ responses[k].status = (IF req.entry = "worker" THEN 405 ELSE 400)
        ELSE responses[k].status \in StatusesOf(responses[k])

\* an unsupported method answered -32601 with status 400
C22_Witness ==
  /\ Answered /\ req.entry = "worker" /\ req.httpMethod = "POST"
  /\ IsErrorOf(responses[1], -32601)
  /\ responses[1].status = 400
  /\ calls = <<>>

\* a GET answered -32600 with status 405
C22_NotPostIs405 ==
  /\ Answered /\ req.entry = "worker" /\ RefusedForMethod
  /\ IsErrorOf(responses[1], -32600)
  /\ responses[1].status = 405

\* a POST refused as an invalid request: -32600 with status 400
C22_InvalidPostIs400 ==
  /\ Answered /\ req.httpMethod = "POST" /\ req.entry = "framework"
  /\ IsErrorOf(responses[1], -32600)
  /\ responses[1].status = 400

----------------------------------------------------------------------------
(* The greet tool *)

\* String.prototype.trim on a text of one-character atoms
RECURSIVE Trim(_)
Trim(text) ==
  IF text = <<>> THEN <<>>
  ELSE IF Head(text) = " " THEN Trim(Tail(text))
  ELSE IF text[Len(text)] = " " THEN Trim(SubSeq(text, 1, Len(text) - 1))
  ELSE text

\* a greet call that passed validation and was answered
GreetAnswered ==
  /\ Answered /\ CallsTool("greet") /\ calls = <<"greet">>
  /\ IsSuccess(responses[1])

\* C23: greet trims leading and trailing whitespace from `name` before it
\* builds the greeting: the text returned for a name is the text returned
\* for the trimmed name, "<greeting>, <trimmed name>!"
C23_GreetTrimsName ==
  GreetAnswered =>
    TheResult.text =
      (IF Truthy(env) THEN Interp(env) ELSE <<"Hello">>)
        \o <<", ">> \o Trim(ReqArg("name").s) \o <<"!">>

\* what the handler returns: the name as it was sent, whitespace included
C23_GreetKeepsWhitespace ==
  /\ GreetAnswered /\ env = Undef
  /\ ReqArg("name") = Str(<<" ", "a">>)
  /\ TheResult.text = <<"Hello", ", ", " ", "a", "!">>
  /\ TheResult.text # <<"Hello", ", ", "a", "!">>

----------------------------------------------------------------------------
(* The calculate tool *)

Operations == {<<"add">>, <<"subtract">>, <<"multiply">>, <<"divide">>}

\* a calculate call whose arguments conform to the schema and do not divide
\* by zero, answered
CalculateValid ==
  /\ Answered /\ CallsTool("calculate")
  /\ ReqArg("operation").t = "str" /\ ReqArg("operation").s \in Operations
  /\ ReqArg("a").t = "num" /\ ReqArg("b").t = "num"
  /\ ~(ReqArg("operation").s = <<"divide">> /\ ReqArg("b").n = 0)

\* whether `text` writes the number a / b (b # 0): the integer p when
\* p * b = a, otherwise the fraction p/q with the least q > 0 such that
\* p * b = a * q
WritesQuotient(text, a, b) ==
  \E p \in -MaxNum..MaxNum, q \in 1..MaxNum :
    /\ p * b = a * q
    /\ \A q2 \in 1..(q - 1) : \A p2 \in -MaxNum..MaxNum : p2 * b # a * q2
    /\ text = IF q = 1 THEN ToString(p) ELSE ToString(p) \o "/" \o ToString(q)

\* whether `text` writes the result of the operation on a and b
WritesResult(text, operation, a, b) ==
  CASE operation = <<"add">> -> text = ToString(a + b)
    [] operation = <<"subtract">> -> text = ToString(a - b)
    [] operation = <<"multiply">> -> text = ToString(a * b)
    [] OTHER -> WritesQuotient(text, a, b)

\* C24: a schema-valid calculate call that does not divide by zero is
\* answered with a non-error result whose one text item is the JSON text of
\* {operation, a, b, result}: operation, a and b as they were sent, and
\* result equal to a + b, a - b, a * b or a / b
C24_CalculateResult ==
  CalculateValid =>
    /\ responses[1].status = 200
    /\ IsSuccess(responses[1])
    /\ TheResult.t = "content" /\ ~TheResult.isError
    /\ calls = <<"calculate">>
    /\ LET text == TheResult.text
       IN /\ Len(text) = 15
          /\ SubSeq(text, 1, 13) =
               <<"{", "\"operation\":", "\"">> \o ReqArg("operation").s
                 \o <<"\"", ",", "\"a\":", ToString(ReqArg("a").n), ",", "\"b\":",
                      ToString(ReqArg("b").n), ",", "\"result\":">>
          /\ WritesResult(text[14], ReqArg("operation").s, ReqArg("a").n,
                          ReqArg("b").n)
          /\ text[15] = "}"

\* 1 - 2 = -1
C24_Witness ==
  /\ CalculateValid
  /\ ReqArg("operation") = Str(<<"subtract">>)
  /\ ReqArg("a") = Num(1) /\ ReqArg("b") = Num(2)
  /\ TheResult.text =
       <<"{", "\"operation\":", "\"", "subtract", "\"", ",", "\"a\":", "1", ",",
         "\"b\":", "2", ",", "\"result\":", "-1", "}">>

\* 1 / -2, a quotient that is no integer
C24_DivideInexact ==
  /\ CalculateValid
  /\ ReqArg("operation") = Str(<<"divide">>)
  /\ ReqArg("a") = Num(1) /\ ReqArg("b") = Num(-2)
  /\ TheResult.text[14] = "-1/2"
  /\ ~TheResult.isError

----------------------------------------------------------------------------
(* Progress notifications of one invocation *)

\* the notifications the engine has pulled from the handler, in emission
\* order: those delivered, then those on their way to the notify sink
Emitted == eng.delivered \o eng.inflight

ProgressInvocation ==
  eng.phase # "idle" /\ eng.handler.kind = "ProgressGenerating"

C25_MoreStepsThanTotal ==
  /\ ProgressInvocation /\ eng.phase = "done"
  /\ eng.handler.total = 1
  /\ eng.delivered = <<[current |-> 1, total |-> 1], [current |-> 2, total |-> 1]>>

\* C26: a progress-generating handler is driven one step at a time: a step
\* is pulled only when every notification pulled before it has been
\* delivered to the notify sink, so never are two notifications of the
\* invocation in flight; and the handler does not run while a notification
\* is being delivered (a step of the handler finds none in flight, and a
\* delivery leaves the handler where it was)
C26_OneStepAtATime ==
  [][/\ Len(eng'.inflight) <= 1
     /\ eng'.n > eng.n =>
          /\ eng.inflight = <<>>
          /\ Len(eng.delivered) = eng.n
     /\ (eng'.pc # eng.pc \/ eng'.phase # eng.phase) => eng.inflight = <<>>
     /\ eng'.delivered # eng.delivered =>
          /\ eng'.pc = eng.pc /\ eng'.phase = eng.phase /\ eng'.n = eng.n
          /\ eng'.delivered = Append(eng.delivered, Head(eng.inflight))]_vars

\* the second step was pulled after the first notification was delivered,
\* and is on its way
C26_Witness ==
  /\ ProgressInvocation /\ eng.phase = "running"
  /\ eng.n = 2
  /\ Len(eng.delivered) = 1 /\ eng.delivered[1].current = 1
  /\ Len(eng.inflight) = 1 /\ eng.inflight[1].current = 2

----------------------------------------------------------------------------
(* The stages of a request *)

StageRank(s) ==
  CASE s = "Received" -> 1
    [] s = "Parsed" -> 2
    [] s = "Routed" -> 3
    [] s = "Executed" -> 4
    [] s = "Responded" -> 5
    [] OTHER -> 0

\* the stages entered so far are stages of the state machine, the first is
\* Received, each is later than the one before, and a request answered with
\* a JSON-RPC error left before Executed
StagesInOrder ==
  /\ \A k \in 1..Len(path) : StageRank(path[k]) > 0
  /\ path # <<>> => path[1] = "Received"
  /\ \A k \in 2..Len(path) : StageRank(path[k - 1]) < StageRank(path[k])
  /\ (Answered /\ IsError(responses[1])) => "Executed" \notin Range(path)

\* C27: a request goes through Received, Parsed, Routed, Executed,
\* Responded in that order, never backwards; an early exit goes straight to
\* Responded with its error and enters no later stage; and every request
\* received is eventually responded to (its handler terminating)
C27_StagesInOrderToResponded ==
  /\ []StagesInOrder
  /\ <>(stage = "Responded")

\* the request the hand-written dispatcher never answers: its body is the
\* JSON value null, and fetch throws after parsing it
C27_ParsedNeverResponded ==
  /\ stage = "Crashed" /\ req.entry = "worker"
  /\ req.body.kind = "null"
  /\ path = <<"Received", "Parsed", "Crashed">>
  /\ responses = <<>>
  /\ calls = <<>>

\* every other request: the stages in order
C27_StagesInOrderUnlessThrown ==
  stage # "Crashed" => StagesInOrder

\* every other request: eventually responded to
C27_RespondedUnlessThrown ==
  ~(req.entry = "worker" /\ req.body.kind = "null" /\ req.httpMethod = "POST")
    => <>(stage = "Responded")

----------------------------------------------------------------------------
(* admin/version.sh *)

\* the steps of a version bump, in the order of the script
BumpSteps ==
  <<"update", "commit", "switch release", "cherry-pick", "switch main",
    "push main", "push release">>

\* origin has something it did not have when the script started
Pushed ==
  \/ ver.repo.originMain # ver.before.originMain
  \/ ver.repo.originRelease # ver.before.originRelease

\* C28: a version bump performs its steps in the order update, commit,
\* switch to release, cherry-pick, switch back to main, push main, push
\* release; the update and the commit are made on main, the commit picked
\* onto release is the commit just made on main, and the pushes are made
\* from main after the switch back; something is pushed only when --push
\* was given; nothing is pushed when the cherry-pick failed; and release is
\* pushed only when the commit on main exists.
C28_BumpStepsInOrder ==
  /\ ver.log = SubSeq(BumpSteps, 1, Len(ver.log))
  /\ Len(ver.log) \in {1, 2} => ver.repo.branch = "main"
  /\ Len(ver.log) >= 2 =>
       /\ ver.repo.main = Append(ver.before.main, ver.next_version)
       /\ ver.commit_sha = Len(ver.repo.main)
  /\ Len(ver.log) >= 4 => ver.repo.picked = Append(ver.before.picked, ver.commit_sha)
  /\ Len(ver.log) >= 5 => ver.repo.branch = "main"
  /\ Pushed => \E k \in 1..Len(ver.args) : ver.args[k] = <<"--push">>
  /\ ver.repo.picking => ~Pushed
  /\ ver.repo.originRelease # ver.before.originRelease =>
       /\ Len(ver.repo.main) = Len(ver.before.main) + 1
       /\ ver.repo.originMain = Len(ver.repo.main)

\* a bump with --push has run to its end: every step was performed and
\* origin has the commit on both branches
C28_Witness ==
  /\ ver.pc = "exited" /\ ver.status = 0
  /\ ver.log = BumpSteps
  /\ ver.repo.originRelease = 1 /\ ver.repo.originMain = 2

\* a bump with --push whose cherry-pick failed: the script ended on release
\* with the commit on main and nothing pushed
C28_CherryPickFailed ==
  /\ ver.pc = "exited" /\ ver.status = 1
  /\ ver.push_branches /\ ver.repo.picking
  /\ ver.repo.branch = "release"
  /\ Len(ver.repo.main) = 2 /\ ~Pushed

\* the argument the script takes as the bump is patch, minor, major or of
\* the form X.Y.Z
BumpArgumentValid ==
  \E k \in 1..Len(ver.args) :
    /\ ver.args[k] # <<"--push">>
    /\ \A j \in (k + 1)..Len(ver.args) : ver.args[j] = <<"--push">>
    /\ \/ ver.args[k] \in {<<"patch">>, <<"minor">>, <<"major">>}
       \/ IsVersion(ver.args[k])

\* C29: the script changes nothing in the repository (package.json, the
\* commits of main and release, the branch checked out, origin) unless,
\* when it started, the branch was main, tracked files were unmodified and
\* nothing was staged, the local release branch existed, and the bump
\* argument is valid; with no argument, or only --push, it changes nothing.
C29_NothingUnlessChecksPass ==
  /\ ver.repo # ver.before =>
       /\ ver.before.branch = "main"
       /\ ~ver.before.unstaged /\ ~ver.before.staged
       /\ ver.before.release
       /\ BumpArgumentValid
  /\ (\A k \in 1..Len(ver.args) : ver.args[k] = <<"--push">>) =>
       ver.repo = ver.before

\* a bump started with modified files has ended with an error and the
\* repository as it was
C29_Witness ==
  /\ ver.pc = "exited" /\ ver.status = 1
  /\ ver.bump_type = <<"patch">>
  /\ ver.before.branch = "main" /\ ver.before.release
  /\ ver.before.unstaged
  /\ ver.repo = ver.before

\* a bump whose argument is neither an increment nor a version has ended
\* with an error after all checks passed, the repository as it was
C29_InvalidBumpChangesNothing ==
  /\ ver.pc = "exited" /\ ver.status = 1
  /\ SafetyChecks(ver.before)
  /\ ver.bump_type = <<"1", ".", "2">>
  /\ ver.repo = ver.before

\* only --push was given: usage, the repository as it was
C29_OnlyPushChangesNothing ==
  /\ ver.pc = "exited" /\ ver.status = 1
  /\ ver.args = <<(<<"--push">>)>>
  /\ SafetyChecks(ver.before)
  /\ ver.repo = ver.before

\* untracked files do not stop a bump: git diff does not see them
C29_UntrackedDoesNotBlock ==
  /\ ver.before.untracked
  /\ ver.repo # ver.before

====
